---------------------------- MODULE Spec2Model ----------------------------
(***************************************************************************)
(* Terms & Conditions analyzer: the rule engine of analyzer.py (normalise,  *)
(* score, detect, serialise) and the N-way ranker of multi_compare.py.      *)
(*                                                                          *)
(* A document is a sequence of tokens.  A token is either one whitespace    *)
(* character or a "sentence atom": a run of text without leading or         *)
(* trailing whitespace, taken from the vocabulary SentenceAtoms.  Strings   *)
(* the program builds (details, evidence, messages) are TLA+ strings, so    *)
(* lengths, slices and concatenations are those of the program.  The one    *)
(* thing a TLA+ string cannot do is run a regular expression: what Python's *)
(* re module answers on a vocabulary atom is tabulated (Within, Multi,      *)
(* CaptureTable), and everything built on those answers (.* across atoms,    *)
(* any(), sums, caps, gates, order) is modelled from the source.  The       *)
(* vocabulary is chosen so that no pattern of the program matches across a  *)
(* token boundary other than through ".*".  Non-ASCII characters of the      *)
(* program's literals are written as one ASCII character each ("-" for the  *)
(* em dash), which keeps every length.                                      *)
(***************************************************************************)
EXTENDS Integers, Sequences, FiniteSets, TLC

VARIABLES
    text,       \* the raw document last handed to analyze()
    outcome,    \* what that call did: nothing yet, raised, or returned a result
    subject,    \* the AnalysisResult last handed to to_dict()
    wire,       \* the dict to_dict() returned
    decoded,    \* the AnalysisResult from_dict() rebuilt from wire
    doc_pairs,  \* the (name, AnalysisResult) list being collected for multi_compare()
    compared,   \* what multi_compare(doc_pairs) did
    evidence_call,  \* the last call of _find_evidence() on text: its arguments and what it found
    response,   \* the last request a web handler served with text as its text, and its reply
    _cache,     \* app.py's module-level dict: its (key, entry) items in insertion order
    issued,     \* how many uuid4 keys the handlers have drawn so far
    handlers,   \* where each request thread stands in its check / evict / store lines
    lookup      \* what the last export request's _get_cached() did

vars == <<text, outcome, subject, wire, decoded, doc_pairs, compared, evidence_call, response,
          _cache, issued, handlers, lookup>>

None == [kind |-> "None"]

\* how many request threads the server runs side by side
NumHandlers == 2

\* ------------------------------------------------------------------ bounds
MaxTokens == 4
MaxDocs == 3
MaxResults == 2

\* ------------------------------------------------------------- vocabulary
Whitespace == {" ", "\n"}

\* ---- vocabulary tables: begin
\* the sentence atoms a document may be built from
SentenceAtoms ==
    {"This Agreement is governed by the laws of California.",
     "Disputes shall be resolved through binding arbitration.",
     "There are no refunds under any circumstances.",
     "You grant an irrevocable license, waive any right to sue, accept the class action waiver and binding arbitration, and get no refund.",
     "We may sell your personal data, change these terms without notice at our sole discretion, and start foreclosure.",
     "A security deposit applies and roaming is extra",
     "We are not responsible for any loss.",
     "Limitation of liability applies and you shall indemnify us.",
     "A non-solicit clause applies.",
     "Welcome"}

\* sentences the evidence finder is tried on beside those: of 19, 20, 500 and 501
\* characters, and one that differs from another in case only
EvidenceAtoms ==
    {"No refund for user.",
     "No refund for users.",
     "NO REFUND FOR USERS.",
     "no refund is given and no refund is given and no refund is given and no refund is given and no refund is given and no refund is given and no refund is given and no refund is given and no refund is given and no refund is given and no refund is given and no refund is given and no refund is given and no refund is given and no refund is given and no refund is given and no refund is given and no refund is given and no refund is given and no refund is given and no refund is given indeed indeed indeed.",
     "no refund is given and no refund is given and no refund is given and no refund is given and no refund is given and no refund is given and no refund is given and no refund is given and no refund is given and no refund is given and no refund is given and no refund is given and no refund is given and no refund is given and no refund is given and no refund is given and no refund is given and no refund is given and no refund is given and no refund is given and no refund is given and and indeed indeed."}

\* str.lower() of the atoms it changes
LowerTable ==
    ("This Agreement is governed by the laws of California."
        :> "this agreement is governed by the laws of california.")
    @@ ("Disputes shall be resolved through binding arbitration."
        :> "disputes shall be resolved through binding arbitration.")
    @@ ("There are no refunds under any circumstances."
        :> "there are no refunds under any circumstances.")
    @@ ("You grant an irrevocable license, waive any right to sue, accept the class action waiver and binding arbitration, and get no refund."
        :> "you grant an irrevocable license, waive any right to sue, accept the class action waiver and binding arbitration, and get no refund.")
    @@ ("We may sell your personal data, change these terms without notice at our sole discretion, and start foreclosure."
        :> "we may sell your personal data, change these terms without notice at our sole discretion, and start foreclosure.")
    @@ ("A security deposit applies and roaming is extra"
        :> "a security deposit applies and roaming is extra")
    @@ ("We are not responsible for any loss."
        :> "we are not responsible for any loss.")
    @@ ("Limitation of liability applies and you shall indemnify us."
        :> "limitation of liability applies and you shall indemnify us.")
    @@ ("A non-solicit clause applies."
        :> "a non-solicit clause applies.")
    @@ ("Welcome"
        :> "welcome")
    @@ ("No refund for user."
        :> "no refund for user.")
    @@ ("No refund for users."
        :> "no refund for users.")
    @@ ("NO REFUND FOR USERS."
        :> "no refund for users.")
    @@ ("We act at our sole discretion and without notice."
        :> "we act at our sole discretion and without notice.")
    @@ ("Binding arbitration applies and we auto-renew your plan."
        :> "binding arbitration applies and we auto-renew your plan.")
    @@ ("Binding arbitration applies, there is no refund, we act at our sole discretion, and a limitation of liability holds."
        :> "binding arbitration applies, there is no refund, we act at our sole discretion, and a limitation of liability holds.")
    @@ ("Binding arbitration applies, there is no refund, we auto-renew the plan and a non-compete holds."
        :> "binding arbitration applies, there is no refund, we auto-renew the plan and a non-compete holds.")
    @@ ("The governing law and jurisdiction are set out in the schedule."
        :> "the governing law and jurisdiction are set out in the schedule.")
    @@ ("The governing law is the laws of New York for every dispute."
        :> "the governing law is the laws of new york for every dispute.")
    @@ ("No refunds at all."
        :> "no refunds at all.")

\* the patterns with ".*": their alternatives, each split at its ".*"
StarPatterns ==
    ("(modif|change|amend).*without.*notice" :> <<<<"(modif|change|amend)", "without", "notice">>>>)
    @@ ("accelerat.*repayment|full.*amount.*due" :> <<<<"accelerat", "repayment">>, <<"full", "amount", "due">>>>)
    @@ ("acceleration.*clause" :> <<<<"acceleration", "clause">>>>)
    @@ ("adjust.*price" :> <<<<"adjust", "price">>>>)
    @@ ("advertis.*cookie" :> <<<<"advertis", "cookie">>>>)
    @@ ("age.*requirement" :> <<<<"age", "requirement">>>>)
    @@ ("aggregate.*data" :> <<<<"aggregate", "data">>>>)
    @@ ("amend.*agreement" :> <<<<"amend", "agreement">>>>)
    @@ ("at any time.*modif" :> <<<<"at any time", "modif">>>>)
    @@ ("attorney.*fees" :> <<<<"attorney", "fees">>>>)
    @@ ("availability.*%" :> <<<<"availability", "%">>>>)
    @@ ("beyond.*control" :> <<<<"beyond", "control">>>>)
    @@ ("cancel.*any time" :> <<<<"cancel", "any time">>>>)
    @@ ("cancel.*notice" :> <<<<"cancel", "notice">>>>)
    @@ ("change.*terms" :> <<<<"change", "terms">>>>)
    @@ ("collect.*data" :> <<<<"collect", "data">>>>)
    @@ ("content.*license" :> <<<<"content", "license">>>>)
    @@ ("damage.*deposit" :> <<<<"damage", "deposit">>>>)
    @@ ("data.*collect" :> <<<<"data", "collect">>>>)
    @@ ("disclose.*health" :> <<<<"disclose", "health">>>>)
    @@ ("download.*offline" :> <<<<"download", "offline">>>>)
    @@ ("end.*subscription" :> <<<<"end", "subscription">>>>)
    @@ ("full.*amount.*due" :> <<<<"full", "amount", "due">>>>)
    @@ ("grant.*license.*content" :> <<<<"grant", "license", "content">>>>)
    @@ ("health.*data" :> <<<<"health", "data">>>>)
    @@ ("indemnif.*attorney" :> <<<<"indemnif", "attorney">>>>)
    @@ ("indemnif.*attorney.*fees" :> <<<<"indemnif", "attorney", "fees">>>>)
    @@ ("irrevocable.*licen" :> <<<<"irrevocable", "licen">>>>)
    @@ ("late.*fee" :> <<<<"late", "fee">>>>)
    @@ ("license.*content" :> <<<<"license", "content">>>>)
    @@ ("location.*track" :> <<<<"location", "track">>>>)
    @@ ("may change.*terms.*without notice" :> <<<<"may change", "terms", "without notice">>>>)
    @@ ("may share.*personal.*third" :> <<<<"may share", "personal", "third">>>>)
    @@ ("medical.*record" :> <<<<"medical", "record">>>>)
    @@ ("modif.*terms" :> <<<<"modif", "terms">>>>)
    @@ ("modify.*fee" :> <<<<"modify", "fee">>>>)
    @@ ("monitor.*communicat" :> <<<<"monitor", "communicat">>>>)
    @@ ("monitor.*communication" :> <<<<"monitor", "communication">>>>)
    @@ ("non.compete.*(\\d+)\\s*year" :> <<<<"non.compete", "(\\d+)\\s*year">>>>)
    @@ ("non.compete.*year" :> <<<<"non.compete", "year">>>>)
    @@ ("not liable.*damage" :> <<<<"not liable", "damage">>>>)
    @@ ("not liable.*downtime" :> <<<<"not liable", "downtime">>>>)
    @@ ("not responsible.*any (loss|damage)" :> <<<<"not responsible", "any (loss|damage)">>>>)
    @@ ("not responsible.*loss" :> <<<<"not responsible", "loss">>>>)
    @@ ("notice.*cancel" :> <<<<"notice", "cancel">>>>)
    @@ ("penalty.*payment" :> <<<<"penalty", "payment">>>>)
    @@ ("perpetual.*licen" :> <<<<"perpetual", "licen">>>>)
    @@ ("perpetual.*licen.*royalty.free" :> <<<<"perpetual", "licen", "royalty.free">>>>)
    @@ ("perpetual.*license" :> <<<<"perpetual", "license">>>>)
    @@ ("personal.*sold" :> <<<<"personal", "sold">>>>)
    @@ ("price.*change" :> <<<<"price", "change">>>>)
    @@ ("renew.*subscription" :> <<<<"renew", "subscription">>>>)
    @@ ("right.*waiv" :> <<<<"right", "waiv">>>>)
    @@ ("sell.*data" :> <<<<"sell", "data">>>>)
    @@ ("sell.*personal" :> <<<<"sell", "personal">>>>)
    @@ ("sell.*personal (data|information)" :> <<<<"sell", "personal (data|information)">>>>)
    @@ ("share.*data" :> <<<<"share", "data">>>>)
    @@ ("share.*health" :> <<<<"share", "health">>>>)
    @@ ("share.*third" :> <<<<"share", "third">>>>)
    @@ ("share.*third.part" :> <<<<"share", "third.part">>>>)
    @@ ("share.*with.*third.part" :> <<<<"share", "with", "third.part">>>>)
    @@ ("sole remedy.*credit" :> <<<<"sole remedy", "credit">>>>)
    @@ ("sole.*discretion" :> <<<<"sole", "discretion">>>>)
    @@ ("speed.*reduc" :> <<<<"speed", "reduc">>>>)
    @@ ("suspend.*account" :> <<<<"suspend", "account">>>>)
    @@ ("terminat.*account" :> <<<<"terminat", "account">>>>)
    @@ ("terminat.*without (prior )?notice" :> <<<<"terminat", "without (prior )?notice">>>>)
    @@ ("terminat.*without.*notice" :> <<<<"terminat", "without", "notice">>>>)
    @@ ("third.*health" :> <<<<"third", "health">>>>)
    @@ ("third.part.*receiv" :> <<<<"third.part", "receiv">>>>)
    @@ ("third.part.*share" :> <<<<"third.part", "share">>>>)
    @@ ("third.party.*cookie" :> <<<<"third.party", "cookie">>>>)
    @@ ("third.party.*sell" :> <<<<"third.party", "sell">>>>)
    @@ ("track.*location" :> <<<<"track", "location">>>>)
    @@ ("unilateral(ly)?.*modif" :> <<<<"unilateral(ly)?", "modif">>>>)
    @@ ("unilateral.*modif" :> <<<<"unilateral", "modif">>>>)
    @@ ("update.*terms" :> <<<<"update", "terms">>>>)
    @@ ("wage.*garnish" :> <<<<"wage", "garnish">>>>)
    @@ ("waive.*right" :> <<<<"waive", "right">>>>)
    @@ ("we may terminate.*at any time" :> <<<<"we may terminate", "at any time">>>>)
    @@ ("without.*notice" :> <<<<"without", "notice">>>>)

\* re.search on one atom: the regexes (patterns of the program, and the pieces and
\* sub-chains of those with ".*") that match somewhere inside it
Within ==
    ("This Agreement is governed by the laws of California." :>
        {"laws? of (the )?([A-Z][a-z]+(?:\\s[A-Z][a-z]+)?)"})
    @@ ("Disputes shall be resolved through binding arbitration." :>
        {"arbitrat", "binding arbitration"})
    @@ ("There are no refunds under any circumstances." :>
        {"no refund", "no refund|non.refundable|all sales final", "refund"})
    @@ ("You grant an irrevocable license, waive any right to sue, accept the class action waiver and binding arbitration, and get no refund." :>
        {"arbitrat", "binding arbitration", "class action", "class action waiver", "grant",
         "grant.*license", "irrevocable", "irrevocable.*licen", "licen", "license", "no refund",
         "no refund|non.refundable|all sales final", "refund", "right", "right.*waiv", "waiv",
         "waive", "waive.*right"})
    @@ ("We may sell your personal data, change these terms without notice at our sole discretion, and start foreclosure." :>
        {"(modif|change|amend)", "(modif|change|amend).*without",
         "(modif|change|amend).*without.*notice", "at our sole discretion", "change",
         "change.*terms", "data", "discretion", "foreclosure", "notice", "personal",
         "personal (data|information)", "personal data", "sell", "sell.*data", "sell.*personal",
         "sell.*personal (data|information)", "sole", "sole discretion", "sole.*discretion",
         "terms", "terms.*without notice", "with", "without", "without (prior )?notice",
         "without notice", "without.*notice"})
    @@ ("A security deposit applies and roaming is extra" :>
        {"deposit", "roaming", "security deposit"})
    @@ ("We are not responsible for any loss." :>
        {"any (loss|damage)", "loss", "not responsible", "not responsible.*any (loss|damage)",
         "not responsible.*loss"})
    @@ ("Limitation of liability applies and you shall indemnify us." :>
        {"indemnif", "liabilit", "liability"})
    @@ ("A non-solicit clause applies." :>
        {"clause", "non.solicit"})
    @@ ("No refund for user." :>
        {"refund"})
    @@ ("No refund for users." :>
        {"refund"})
    @@ ("no refund is given and no refund is given and no refund is given and no refund is given and no refund is given and no refund is given and no refund is given and no refund is given and no refund is given and no refund is given and no refund is given and no refund is given and no refund is given and no refund is given and no refund is given and no refund is given and no refund is given and no refund is given and no refund is given and no refund is given and no refund is given indeed indeed indeed." :>
        {"no refund", "no refund|non.refundable|all sales final", "refund"})
    @@ ("no refund is given and no refund is given and no refund is given and no refund is given and no refund is given and no refund is given and no refund is given and no refund is given and no refund is given and no refund is given and no refund is given and no refund is given and no refund is given and no refund is given and no refund is given and no refund is given and no refund is given and no refund is given and no refund is given and no refund is given and no refund is given and and indeed indeed." :>
        {"no refund", "no refund|non.refundable|all sales final", "refund"})
    @@ ("We act at our sole discretion and without notice." :>
        {"at our sole discretion", "discretion", "notice", "sole", "sole discretion",
         "sole.*discretion", "with", "without", "without (prior )?notice", "without notice",
         "without.*notice"})
    @@ ("Binding arbitration applies and we auto-renew your plan." :>
        {"arbitrat", "auto.?renew", "renew"})
    @@ ("Binding arbitration applies, there is no refund, we act at our sole discretion, and a limitation of liability holds." :>
        {"arbitrat", "at our sole discretion", "discretion", "liabilit", "liability",
         "limitation of liability", "no refund", "no refund|non.refundable|all sales final",
         "refund", "sole", "sole discretion", "sole.*discretion"})
    @@ ("Binding arbitration applies, there is no refund, we auto-renew the plan and a non-compete holds." :>
        {"arbitrat", "auto.?renew", "no refund", "no refund|non.refundable|all sales final",
         "non.compete", "refund", "renew"})
    @@ ("The governing law and jurisdiction are set out in the schedule." :>
        {"governing law", "jurisdiction"})
    @@ ("The governing law is the laws of New York for every dispute." :>
        {"dispute", "governing law", "laws? of (the )?([A-Z][a-z]+(?:\\s[A-Z][a-z]+)?)"})
    @@ ("No refunds at all." :>
        {"refund"})
    @@ ("this agreement is governed by the laws of california." :>
        {"agreement"})
    @@ ("disputes shall be resolved through binding arbitration." :>
        {"arbitrat", "binding arbitration", "dispute"})
    @@ ("there are no refunds under any circumstances." :>
        {"no refund", "no refund|non.refundable|all sales final", "refund"})
    @@ ("you grant an irrevocable license, waive any right to sue, accept the class action waiver and binding arbitration, and get no refund." :>
        {"arbitrat", "binding arbitration", "class action", "class action waiver", "grant",
         "grant.*license", "irrevocable", "irrevocable.*licen", "licen", "license", "no refund",
         "no refund|non.refundable|all sales final", "refund", "right", "right.*waiv", "waiv",
         "waive", "waive.*right"})
    @@ ("we may sell your personal data, change these terms without notice at our sole discretion, and start foreclosure." :>
        {"(modif|change|amend)", "(modif|change|amend).*without",
         "(modif|change|amend).*without.*notice", "at our sole discretion", "change",
         "change.*terms", "data", "discretion", "foreclosure", "notice", "personal",
         "personal (data|information)", "personal data", "sell", "sell.*data", "sell.*personal",
         "sell.*personal (data|information)", "sole", "sole discretion", "sole.*discretion",
         "terms", "terms.*without notice", "with", "without", "without (prior )?notice",
         "without notice", "without.*notice"})
    @@ ("a security deposit applies and roaming is extra" :>
        {"deposit", "roaming", "security deposit"})
    @@ ("we are not responsible for any loss." :>
        {"any (loss|damage)", "loss", "not responsible", "not responsible.*any (loss|damage)",
         "not responsible.*loss"})
    @@ ("limitation of liability applies and you shall indemnify us." :>
        {"indemnif", "liabilit", "liability", "limitation of liability"})
    @@ ("a non-solicit clause applies." :>
        {"clause", "non.solicit"})
    @@ ("no refund for user." :>
        {"no refund", "no refund|non.refundable|all sales final", "refund"})
    @@ ("no refund for users." :>
        {"no refund", "no refund|non.refundable|all sales final", "refund"})
    @@ ("we act at our sole discretion and without notice." :>
        {"at our sole discretion", "discretion", "notice", "sole", "sole discretion",
         "sole.*discretion", "with", "without", "without (prior )?notice", "without notice",
         "without.*notice"})
    @@ ("binding arbitration applies and we auto-renew your plan." :>
        {"arbitrat", "auto.?renew", "binding arbitration", "renew"})
    @@ ("binding arbitration applies, there is no refund, we act at our sole discretion, and a limitation of liability holds." :>
        {"arbitrat", "at our sole discretion", "binding arbitration", "discretion", "liabilit",
         "liability", "limitation of liability", "no refund",
         "no refund|non.refundable|all sales final", "refund", "sole", "sole discretion",
         "sole.*discretion"})
    @@ ("binding arbitration applies, there is no refund, we auto-renew the plan and a non-compete holds." :>
        {"arbitrat", "auto.?renew", "binding arbitration", "no refund",
         "no refund|non.refundable|all sales final", "non.compete", "refund", "renew"})
    @@ ("the governing law and jurisdiction are set out in the schedule." :>
        {"governing law", "jurisdiction"})
    @@ ("the governing law is the laws of new york for every dispute." :>
        {"dispute", "governing law"})
    @@ ("no refunds at all." :>
        {"no refund", "no refund|non.refundable|all sales final", "refund"})

\* len(re.findall(p, tok)) where a document-type pattern matches an atom more than once
Multi ==
    <<>>

\* the groups of the leftmost match of a capturing pattern inside an atom
CaptureTable ==
    ("This Agreement is governed by the laws of California." :>
        (("laws? of (the )?([A-Z][a-z]+(?:\\s[A-Z][a-z]+)?)" :> [group |-> <<"", "California">>])))
    @@ ("The governing law is the laws of New York for every dispute." :>
        (("laws? of (the )?([A-Z][a-z]+(?:\\s[A-Z][a-z]+)?)" :> [group |-> <<"", "New York">>])))

\* per atom: split = len(a.split()); words, letters = the runs of letters and apostrophes and their total
\* length; syllables, complex = _count_syllables summed, and the words it gives 3 or more;
\* stops = the runs of [.!?]; head, tail = whether text stands before the first and after
\* the last run; inner = the pieces between two runs that hold more than whitespace
TextStats ==
    ("This Agreement is governed by the laws of California." :>
        [split |-> 9, words |-> 9, letters |-> 44, syllables |-> 16, complex |-> 3, stops |-> 1, head |-> TRUE, tail |-> FALSE, inner |-> 0])
    @@ ("Disputes shall be resolved through binding arbitration." :>
        [split |-> 7, words |-> 7, letters |-> 48, syllables |-> 16, complex |-> 3, stops |-> 1, head |-> TRUE, tail |-> FALSE, inner |-> 0])
    @@ ("There are no refunds under any circumstances." :>
        [split |-> 7, words |-> 7, letters |-> 38, syllables |-> 13, complex |-> 1, stops |-> 1, head |-> TRUE, tail |-> FALSE, inner |-> 0])
    @@ ("You grant an irrevocable license, waive any right to sue, accept the class action waiver and binding arbitration, and get no refund." :>
        [split |-> 22, words |-> 22, letters |-> 107, syllables |-> 37, complex |-> 3, stops |-> 1, head |-> TRUE, tail |-> FALSE, inner |-> 0])
    @@ ("We may sell your personal data, change these terms without notice at our sole discretion, and start foreclosure." :>
        [split |-> 18, words |-> 18, letters |-> 92, syllables |-> 29, complex |-> 3, stops |-> 1, head |-> TRUE, tail |-> FALSE, inner |-> 0])
    @@ ("A security deposit applies and roaming is extra" :>
        [split |-> 8, words |-> 8, letters |-> 40, syllables |-> 16, complex |-> 2, stops |-> 0, head |-> TRUE, tail |-> TRUE, inner |-> 0])
    @@ ("We are not responsible for any loss." :>
        [split |-> 7, words |-> 7, letters |-> 29, syllables |-> 10, complex |-> 1, stops |-> 1, head |-> TRUE, tail |-> FALSE, inner |-> 0])
    @@ ("Limitation of liability applies and you shall indemnify us." :>
        [split |-> 9, words |-> 9, letters |-> 50, syllables |-> 20, complex |-> 3, stops |-> 1, head |-> TRUE, tail |-> FALSE, inner |-> 0])
    @@ ("A non-solicit clause applies." :>
        [split |-> 4, words |-> 5, letters |-> 24, syllables |-> 8, complex |-> 1, stops |-> 1, head |-> TRUE, tail |-> FALSE, inner |-> 0])
    @@ ("Welcome" :>
        [split |-> 1, words |-> 1, letters |-> 7, syllables |-> 2, complex |-> 0, stops |-> 0, head |-> TRUE, tail |-> TRUE, inner |-> 0])
    @@ ("We act at our sole discretion and without notice." :>
        [split |-> 9, words |-> 9, letters |-> 40, syllables |-> 14, complex |-> 1, stops |-> 1, head |-> TRUE, tail |-> FALSE, inner |-> 0])
    @@ ("Binding arbitration applies and we auto-renew your plan." :>
        [split |-> 8, words |-> 9, letters |-> 47, syllables |-> 17, complex |-> 1, stops |-> 1, head |-> TRUE, tail |-> FALSE, inner |-> 0])
    @@ ("Binding arbitration applies, there is no refund, we act at our sole discretion, and a limitation of liability holds." :>
        [split |-> 19, words |-> 19, letters |-> 94, syllables |-> 36, complex |-> 4, stops |-> 1, head |-> TRUE, tail |-> FALSE, inner |-> 0])
    @@ ("Binding arbitration applies, there is no refund, we auto-renew the plan and a non-compete holds." :>
        [split |-> 15, words |-> 17, letters |-> 77, syllables |-> 27, complex |-> 1, stops |-> 1, head |-> TRUE, tail |-> FALSE, inner |-> 0])
    @@ ("The governing law and jurisdiction are set out in the schedule." :>
        [split |-> 11, words |-> 11, letters |-> 52, syllables |-> 18, complex |-> 2, stops |-> 1, head |-> TRUE, tail |-> FALSE, inner |-> 0])
    @@ ("The governing law is the laws of New York for every dispute." :>
        [split |-> 12, words |-> 12, letters |-> 48, syllables |-> 17, complex |-> 2, stops |-> 1, head |-> TRUE, tail |-> FALSE, inner |-> 0])
    @@ ("No refunds at all." :>
        [split |-> 4, words |-> 4, letters |-> 14, syllables |-> 5, complex |-> 0, stops |-> 1, head |-> TRUE, tail |-> FALSE, inner |-> 0])

\* round(x, 1) of the double the program computes, in tenths, wherever it is another tenth
\* than the exact quotient rounds to (the double lies on the other side of a decimal tie);
\* keyed by the formula and its integer inputs, for texts of up to 5 atoms
FloatRounding ==
    (<<"avg_word_len", 89, 20, 0>> :> 45)
    @@ (<<"avg_word_len", 93, 20, 0>> :> 47)
    @@ (<<"avg_word_len", 107, 20, 0>> :> 53)
    @@ (<<"avg_word_len", 111, 20, 0>> :> 55)
    @@ (<<"avg_word_len", 127, 20, 0>> :> 63)
    @@ (<<"avg_word_len", 186, 40, 0>> :> 47)
    @@ (<<"avg_word_len", 214, 40, 0>> :> 53)
    @@ (<<"avg_word_len", 218, 40, 0>> :> 55)
    @@ (<<"avg_word_len", 226, 40, 0>> :> 57)
    @@ (<<"flesch_ease", 1, 15, 24>> :> 563)
    @@ (<<"flesch_ease", 1, 15, 29>> :> 281)
    @@ (<<"flesch_ease", 1, 15, 34>> :> -1)
    @@ (<<"flesch_ease", 1, 24, 45>> :> 239)
    @@ (<<"flesch_ease", 1, 39, 78>> :> -19)
    @@ (<<"flesch_ease", 1, 55, 88>> :> 157)
    @@ (<<"flesch_ease", 2, 30, 48>> :> 563)
    @@ (<<"flesch_ease", 2, 30, 58>> :> 281)
    @@ (<<"flesch_ease", 2, 30, 68>> :> -1)
    @@ (<<"flesch_ease", 2, 40, 79>> :> 195)
    @@ (<<"flesch_ease", 2, 48, 90>> :> 239)
    @@ (<<"flesch_ease", 3, 45, 72>> :> 563)
    @@ (<<"flesch_ease", 3, 45, 77>> :> 469)
    @@ (<<"flesch_ease", 3, 45, 82>> :> 375)
    @@ (<<"flesch_ease", 3, 45, 87>> :> 281)
    @@ (<<"flesch_ease", 3, 45, 92>> :> 187)
    @@ (<<"flesch_ease", 3, 72, 119>> :> 427)
    @@ (<<"flesch_ease", 3, 72, 127>> :> 333)
    @@ (<<"flesch_ease", 4, 36, 59>> :> 591)
    @@ (<<"flesch_ease", 4, 36, 63>> :> 497)
    @@ (<<"flesch_ease", 4, 36, 67>> :> 403)
    @@ (<<"flesch_ease", 4, 36, 71>> :> 309)
    @@ (<<"flesch_ease", 5, 35, 63>> :> 475)
    @@ (<<"flesch_grade", 1, 16, 32>> :> 143)
    @@ (<<"flesch_grade", 1, 20, 36>> :> 135)
    @@ (<<"flesch_grade", 1, 36, 72>> :> 221)
    @@ (<<"flesch_grade", 1, 40, 72>> :> 213)
    @@ (<<"flesch_grade", 1, 46, 69>> :> 201)
    @@ (<<"flesch_grade", 1, 60, 108>> :> 291)
    @@ (<<"flesch_grade", 2, 12, 18>> :> 45)
    @@ (<<"flesch_grade", 2, 32, 64>> :> 143)
    @@ (<<"flesch_grade", 2, 40, 72>> :> 135)
    @@ (<<"flesch_grade", 3, 20, 36>> :> 83)
    @@ (<<"flesch_grade", 3, 28, 56>> :> 117)
    @@ (<<"flesch_grade", 3, 38, 76>> :> 129)
    @@ (<<"flesch_grade", 3, 40, 72>> :> 109)
    @@ (<<"flesch_grade", 3, 60, 108>> :> 135)
    @@ (<<"flesch_grade", 4, 24, 36>> :> 45)
    @@ (<<"flesch_grade", 4, 84, 147>> :> 133)
\* ---- vocabulary tables: end

Tokens == SentenceAtoms \cup Whitespace

\* ---------------------------------------------------------------- helpers
Min(a, b) == IF a < b THEN a ELSE b
Max(a, b) == IF a > b THEN a ELSE b

Range(s) == {s[i] : i \in DOMAIN s}

RECURSIVE SumSeq(_)
SumSeq(s) == IF s = <<>> THEN 0 ELSE Head(s) + SumSeq(Tail(s))

\* dict.get(key, default) on a table
Lookup(table, key, default) == IF key \in DOMAIN table THEN table[key] ELSE default

RECURSIVE Concat(_)
\* "".join(tokens)
Concat(toks) == IF toks = <<>> THEN "" ELSE Head(toks) \o Concat(Tail(toks))

\* str[:n]
Prefix(str, n) == SubSeq(str, 1, Min(n, Len(str)))

\* ------------------------------------------------------------- text tools
IsSpace(tok) == tok \in Whitespace

RECURSIVE CollapseSpaces(_)
\* re.sub(r'\s+', ' ', text): every maximal run of whitespace becomes one " "
CollapseSpaces(toks) ==
    IF toks = <<>> THEN <<>>
    ELSE IF IsSpace(Head(toks))
         THEN LET rest == CollapseSpaces(Tail(toks))
              IN  IF rest # <<>> /\ Head(rest) = " " THEN rest ELSE <<" ">> \o rest
         ELSE <<Head(toks)>> \o CollapseSpaces(Tail(toks))

\* str.strip() of a collapsed text: at most one " " at either end
Strip(toks) ==
    LET a == IF toks # <<>> /\ IsSpace(Head(toks)) THEN Tail(toks) ELSE toks
    IN  IF a # <<>> /\ IsSpace(a[Len(a)]) THEN SubSeq(a, 1, Len(a) - 1) ELSE a

\* faulty variant: runs of whitespace are collapsed but the ends are not stripped
_clean_unstripped(toks) == CollapseSpaces(toks)

\* re.sub(r'\s+', ' ', text).strip()
_clean(toks) == Strip(CollapseSpaces(toks))

\* str.lower(), token by token
LowerTok(tok) == Lookup(LowerTable, tok, tok)
lower(toks) == [i \in DOMAIN toks |-> LowerTok(toks[i])]

\* whether the regex rx (without a top-level "|" beside ".*") matches inside the one token tok
MatchesIn(rx, tok) == rx \in Lookup(Within, tok, {})

RECURSIVE JoinStar(_)
\* the regex p1.*p2.*...*pn of the pieces
JoinStar(pieces) ==
    IF Len(pieces) = 1 THEN pieces[1]
    ELSE pieces[1] \o ".*" \o JoinStar(Tail(pieces))

RECURSIVE Chain(_, _, _)
\* p1.*p2.*...*pn matches in toks[from..]: "." matches every character of a
\* normalised text (it holds no newline), so consecutive groups of pieces match
\* inside tokens at increasing positions
Chain(pieces, toks, from) ==
    IF pieces = <<>> THEN TRUE
    ELSE \E n \in 1..Len(pieces), j \in from..Len(toks) :
            /\ MatchesIn(JoinStar(SubSeq(pieces, 1, n)), toks[j])
            /\ Chain(SubSeq(pieces, n + 1, Len(pieces)), toks, j + 1)

\* the alternatives of a pattern, each split at its ".*"
Alternatives(p) == Lookup(StarPatterns, p, << <<p>> >>)

\* re.search(p, toks) is not None
Search(p, toks) == \E alt \in Range(Alternatives(p)) : Chain(alt, toks, 1)

\* _has(text, *patterns)
_has(toks, patterns) == LET t == lower(toks) IN \E p \in patterns : Search(p, t)


\* ----------------------------------------------------------- risk scoring
RISK_PATTERNS ==
    << <<15, "irrevocable">>,
       <<15, "waive.*right">>,
       <<15, "no refund">>,
       <<15, "class action waiver">>,
       <<15, "binding arbitration">>,
       <<14, "sell.*personal (data|information)">>,
       <<12, "at our sole discretion">>,
       <<12, "without (prior )?notice">>,
       <<12, "we may terminate.*at any time">>,
       <<12, "unlimited liability">>,
       <<12, "may share.*personal.*third">>,
       <<10, "auto.?renew">>,
       <<10, "may change.*terms.*without notice">>,
       <<10, "unilateral(ly)?.*modif">>,
       <<15, "foreclosure">>,
       <<12, "cross.default">>,
       <<12, "acceleration.*clause">>,
       <<12, "wage.*garnish">>,
       <<10, "non.compete">>,
       <<10, "perpetual.*license">>,
       <<10, "track.*location">>,
       <<10, "monitor.*communication">>,
       <<7,  "limitation of liability">>,
       <<6,  "disclaimer of warranties">>,
       <<6,  "as.is">>,
       <<6,  "indemnif">>,
       <<5,  "governing law">>,
       <<5,  "dispute resolution">>,
       <<5,  "force majeure">>,
       <<4,  "intellectual property">>,
       <<3,  "cookies">>,
       <<3,  "aggregate.*data">> >>

RiskCap == 100
HighThreshold == 50
MediumThreshold == 25

\* the indices of the RISK_PATTERNS entries that re.search finds in the lower-cased text
RiskMatches(toks) ==
    LET t == lower(toks)
    IN  {i \in DOMAIN RISK_PATTERNS : Search(RISK_PATTERNS[i][2], t)}

\* faulty variant: an entry's weight is added once for every sentence the entry is found in
RiskSumPerSentence(toks) ==
    LET t == lower(toks)
        Times(p) == IF p \in DOMAIN StarPatterns THEN (IF Search(p, t) THEN 1 ELSE 0)
                    ELSE Cardinality({k \in DOMAIN t : MatchesIn(p, t[k])})
    IN  SumSeq([i \in DOMAIN RISK_PATTERNS |-> RISK_PATTERNS[i][1] * Times(RISK_PATTERNS[i][2])])

\* sum(w for w, p in RISK_PATTERNS if re.search(p, t))
RiskSum(toks) ==
    LET m == RiskMatches(toks)
    IN  SumSeq([i \in DOMAIN RISK_PATTERNS |-> IF i \in m THEN RISK_PATTERNS[i][1] ELSE 0])

\* faulty variant: the sum is returned without the cap
RiskScoreUncapped(toks) == RiskSum(toks)

\* faulty variant: the sum is brought into range by wrapping around instead of capping
RiskScoreWrapped(toks) == RiskSum(toks) % (RiskCap + 1)

\* min(..., 100)
RiskScore(toks) == Min(RiskSum(toks), RiskCap)

\* faulty variant: a score on a threshold falls into the tier below
RiskVerdictStrict(score) ==
    IF score > HighThreshold
    THEN <<"High", "Contains several aggressive clauses - liability waivers, arbitration requirements, or data-sharing terms.", score>>
    ELSE IF score > MediumThreshold
    THEN <<"Medium", "Has some notable clauses around liability, data use, or cancellation that deserve attention.", score>>
    ELSE <<"Low", "Mostly standard terms with no particularly aggressive conditions detected.", score>>

\* faulty variant: the high tier starts at the medium threshold
RiskVerdictLowered(score) ==
    IF score >= MediumThreshold
    THEN <<"High", "Contains several aggressive clauses - liability waivers, arbitration requirements, or data-sharing terms.", score>>
    ELSE <<"Low", "Mostly standard terms with no particularly aggressive conditions detected.", score>>

\* the (risk_level, risk_reason, risk_score) of a score
RiskVerdict(score) ==
    IF score >= HighThreshold
    THEN <<"High", "Contains several aggressive clauses - liability waivers, arbitration requirements, or data-sharing terms.", score>>
    ELSE IF score >= MediumThreshold
    THEN <<"Medium", "Has some notable clauses around liability, data use, or cancellation that deserve attention.", score>>
    ELSE <<"Low", "Mostly standard terms with no particularly aggressive conditions detected.", score>>

\* compute_risk(text): the capped score, then its level and reason
compute_risk(toks) == RiskVerdict(RiskScore(toks))


\* -------------------------------------------------------- evidence finder
EndsSentence(tok) ==
    /\ ~IsSpace(tok)
    /\ SubSeq(tok, Len(tok), Len(tok)) \in {".", "!", "?"}

RECURSIVE SplitSentences(_, _)
\* re.split(r'(?<=[.!?])\s+', text): cut at every whitespace run that follows a
\* ".", "!" or "?"; cur is the piece being collected
SplitSentences(toks, cur) ==
    IF toks = <<>> THEN <<cur>>
    ELSE IF IsSpace(Head(toks)) /\ cur # <<>> /\ EndsSentence(cur[Len(cur)])
         THEN LET rest == Tail(toks)
              IN  IF rest # <<>> /\ IsSpace(Head(rest))
                  THEN SplitSentences(rest, cur)     \* the same run goes on
                  ELSE <<cur>> \o SplitSentences(rest, <<>>)
         ELSE SplitSentences(Tail(toks), Append(cur, Head(toks)))

MinEvidenceLen == 20
MaxEvidenceLen == 500
EvidenceKeyLen == 80
DefaultMaxResults == 2

\* faulty variant: the key keeps the case of the sentence
EvidenceKeyCaseSensitive(sent) == Prefix(Concat(sent), EvidenceKeyLen)

\* s.lower()[:80]; s is normalised already (line 133), so the re.sub of line 138
\* finds no whitespace run left to collapse
EvidenceKey(sent) == Prefix(Concat(lower(sent)), EvidenceKeyLen)

RECURSIVE EvidenceLoop(_, _, _, _, _)
\* the end of the loop body: break once enough was found, else on to the next sentence
EvidenceBreak(rest, patterns, max_results, found, seen) ==
    IF Len(found) >= max_results THEN found
    ELSE EvidenceLoop(rest, patterns, max_results, found, seen)

\* faulty variant: a sentence of any length is taken
EvidenceBodyAnyLength(s, rest, patterns, max_results, found, seen) ==
    IF /\ \E p \in patterns : Search(p, lower(s))
       /\ EvidenceKey(s) \notin seen
    THEN EvidenceBreak(rest, patterns, max_results,
                       Append(found, Concat(s)), seen \cup {EvidenceKey(s)})
    ELSE EvidenceBreak(rest, patterns, max_results, found, seen)

\* the loop body on the cleaned sentence s, rest being the sentences still to visit
EvidenceBody(s, rest, patterns, max_results, found, seen) ==
    IF Len(Concat(s)) < MinEvidenceLen \/ Len(Concat(s)) > MaxEvidenceLen
    THEN EvidenceLoop(rest, patterns, max_results, found, seen)                \* continue
    ELSE IF /\ \E p \in patterns : Search(p, lower(s))                         \* re.IGNORECASE
            /\ EvidenceKey(s) \notin seen
         THEN EvidenceBreak(rest, patterns, max_results,
                            Append(found, Concat(s)), seen \cup {EvidenceKey(s)})
         ELSE EvidenceBreak(rest, patterns, max_results, found, seen)

\* the for loop of _find_evidence over the sentences still to visit
EvidenceLoop(sentences, patterns, max_results, found, seen) ==
    IF sentences = <<>> THEN found
    ELSE EvidenceBody(_clean(Head(sentences)), Tail(sentences), patterns, max_results, found, seen)

\* _find_evidence(text, *patterns, max_results)
_find_evidence_n(toks, patterns, max_results) ==
    EvidenceLoop(SplitSentences(toks, <<>>), patterns, max_results, <<>>, {})

\* _find_evidence(text, *patterns) with the default max_results
_find_evidence(toks, patterns) == _find_evidence_n(toks, patterns, DefaultMaxResults)

\* ------------------------------------------------------ capturing searches
RECURSIVE SearchGroups(_, _, _)
\* re.search(p, text[, re.IGNORECASE]) for a pattern with groups: [group |-> <<group(1),
\* group(2), ...>>] of the leftmost match, or None without a match.  A group that took no
\* part is "": the program only tests such a group for truth (line 558).
\* The leftmost match lies in the first token the pattern matches in.
SearchGroups(p, toks, ignorecase) ==
    IF toks = <<>> THEN None
    ELSE IF MatchesIn(p, IF ignorecase THEN LowerTok(Head(toks)) ELSE Head(toks))
         THEN CaptureTable[Head(toks)][p]
         ELSE SearchGroups(p, Tail(toks), ignorecase)


\* ----------------------------------------------------- key point detectors
KeyPoint(category, icon, title, detail, watch_out, evidence) ==
    [category |-> category, icon |-> icon, title |-> title, detail |-> detail,
     watch_out |-> watch_out, evidence |-> evidence]

RedFlag(message, evidence) == [message |-> message, evidence |-> evidence]

_detect_payment(t) ==
    IF ~_has(t, {"payment", "billing", "charge", "fee", "price"}) THEN None
    ELSE LET c1 == _has(t, {"automat\\w+ (charge|bill|renew)"})
             c2 == _has(t, {"price.*change", "adjust.*price", "modify.*fee"})
             c3 == _has(t, {"late.*fee", "penalty.*payment"})
             parts == (IF c1 THEN <<"Payments may be charged automatically.">> ELSE <<>>)
                   \o (IF c2 THEN <<"Prices can change - check for notice requirements.">> ELSE <<>>)
                   \o (IF c3 THEN <<"Late payment fees or penalties may apply.">> ELSE <<>>)
             watch == c1 \/ c2 \/ c3
             detail == IF parts # <<>> THEN parts[1] ELSE "Document includes payment or billing terms."
             evidence == _find_evidence(t, {"payment", "billing", "charge", "fee"})
         IN  KeyPoint("Payment & Billing", "[credit card]", "Payment Terms", detail, watch, evidence)

_detect_renewal(t) ==
    IF ~_has(t, {"auto.?renew", "automatically renew", "renew.*subscription"}) THEN None
    ELSE LET evidence == _find_evidence(t, {"auto.?renew", "automatically renew"})
         IN  KeyPoint("Auto-Renewal", "[arrows]", "Automatic Renewal",
                 "Your subscription may renew automatically. Check how far in advance you must cancel.",
                 TRUE, evidence)

_detect_cancellation(t) ==
    IF ~_has(t, {"cancel", "terminat", "end.*subscription"}) THEN None
    ELSE LET dw == IF _has(t, {"no refund", "non.refundable"})
                   THEN <<"Cancellations may not entitle you to a refund.", TRUE>>
                   ELSE IF _has(t, {"cancel.*any time", "anytime"})
                   THEN <<"You can cancel at any time, but verify whether unused periods are refunded.", FALSE>>
                   ELSE IF _has(t, {"notice.*cancel", "cancel.*notice"})
                   THEN <<"A notice period may be required before cancellation takes effect.", TRUE>>
                   ELSE <<"Cancellation terms are defined in this document.", FALSE>>
             evidence == _find_evidence(t, {"cancel\\w*", "terminat\\w*"})
         IN  KeyPoint("Cancellation", "[cross]", "Cancellation Policy", dw[1], dw[2], evidence)

_detect_refund(t) ==
    IF ~_has(t, {"refund", "money.back", "chargeback"}) THEN None
    ELSE LET evidence == _find_evidence(t, {"refund", "money.back"})
         IN  IF _has(t, {"no refund", "non.refundable", "all sales final"})
             THEN KeyPoint("Refunds", "[money bag]", "Refund Policy",
                      "No refunds are available - all purchases are final.", TRUE, evidence)
             ELSE LET m == SearchGroups("(\\d+).day", t, TRUE)
                      detail == IF m # None
                                THEN "A " \o m.group[1] \o "-day refund window is offered - verify the conditions."
                                ELSE "Refund terms are addressed."
                  IN  KeyPoint("Refunds", "[money bag]", "Refund Policy", detail, FALSE, evidence)

_detect_data_privacy(t) ==
    IF ~_has(t, {"personal (data|information)", "privacy", "collect.*data"}) THEN None
    ELSE LET evidence == _find_evidence(t, {"personal (data|information)", "collect.*data", "share.*data"})
         IN  IF _has(t, {"sell.*data", "third.party.*sell"})
             THEN KeyPoint("Privacy & Data", "[lock]", "Data & Privacy",
                      "Your personal data may be sold to third parties.", TRUE, evidence)
             ELSE IF _has(t, {"share.*third.part", "third.part.*share"})
             THEN KeyPoint("Privacy & Data", "[lock]", "Data & Privacy",
                      "Your data may be shared with third parties - check which ones and why.", TRUE, evidence)
             ELSE LET detail == IF _has(t, {"gdpr", "ccpa"})
                                THEN "GDPR/CCPA-compliant data handling is referenced."
                                ELSE "The document describes how your personal data is handled."
                  IN  KeyPoint("Privacy & Data", "[lock]", "Data & Privacy", detail, FALSE, evidence)

_detect_cookies(t) ==
    IF ~_has(t, {"cookie", "tracking", "web beacon", "pixel"}) THEN None
    ELSE LET evidence == _find_evidence(t, {"cookie", "tracking", "web beacon"})
             watch == _has(t, {"third.party.*cookie", "advertis.*cookie"})
             detail == IF watch
                       THEN "Third-party and advertising cookies may be placed on your device."
                       ELSE "Cookies and tracking technologies are used."
         IN  KeyPoint("Cookies & Tracking", "[cookie]", "Cookies & Tracking", detail, watch, evidence)

_detect_liability(t) ==
    IF ~_has(t, {"liability", "liable", "indemnif"}) THEN None
    ELSE LET evidence == _find_evidence(t, {"liabilit", "indemnif"})
             dw == IF _has(t, {"unlimited liability"})
                   THEN <<"You may be exposed to unlimited financial liability.", TRUE>>
                   ELSE IF _has(t, {"limitation of liability", "not liable"})
                   THEN <<"The provider limits its own liability - you may have limited recourse for damages.", TRUE>>
                   ELSE <<"The document includes liability clauses.", FALSE>>
             ind == _has(t, {"indemnif"})
             detail == IF ind
                       THEN dw[1] \o " You may be required to indemnify the provider against third-party claims."
                       ELSE dw[1]
             watch == IF ind THEN TRUE ELSE dw[2]
         IN  KeyPoint("Liability", "[warning]", "Liability & Indemnification", detail, watch, evidence)

_detect_arbitration(t) ==
    IF ~_has(t, {"arbitrat", "class action", "dispute resolution", "jurisdiction"}) THEN None
    ELSE LET evidence == _find_evidence(t, {"arbitrat", "class action", "dispute"})
             b  == _has(t, {"binding arbitration"})
             c  == _has(t, {"class action waiver"})
             d1 == IF b
                   THEN "You must use binding arbitration to resolve disputes - you may not sue in court."
                   ELSE "Dispute resolution procedures are outlined."
             detail == IF c THEN d1 \o " Class action lawsuits are waived." ELSE d1
             watch == b \/ c
         IN  KeyPoint("Dispute Resolution", "[scales]", "Disputes & Arbitration", detail, watch, evidence)

_detect_ip(t) ==
    IF ~_has(t, {"intellectual property", "copyright", "trademark", "content.*license", "user.generated"})
    THEN None
    ELSE LET evidence == _find_evidence(t, {"intellectual property", "copyright", "license.*content"})
             watch == _has(t, {"grant.*license.*content", "royalty.free", "perpetual.*license"})
             detail == IF watch
                       THEN "You grant the platform a broad license to use your content."
                       ELSE "Intellectual property ownership is addressed."
         IN  KeyPoint("Intellectual Property", "[copyright]", "Content & IP Rights", detail, watch, evidence)

_detect_termination(t) ==
    IF ~_has(t, {"terminat.*account", "suspend.*account", "sole.*discretion"}) THEN None
    ELSE LET evidence == _find_evidence(t, {"terminat.*account", "suspend.*account", "sole.*discretion"})
             w == _has(t, {"without (prior )?notice"}) /\ _has(t, {"terminat"})
             detail == IF w
                       THEN "Your account may be terminated without prior notice at their discretion."
                       ELSE "The provider can terminate or suspend accounts under defined conditions."
         IN  KeyPoint("Account Termination", "[no entry]", "Account Suspension / Termination", detail, w, evidence)

_detect_changes(t) ==
    IF ~_has(t, {"modif.*terms", "change.*terms", "amend.*agreement", "update.*terms"}) THEN None
    ELSE LET evidence == _find_evidence(t, {"modif.*terms", "change.*terms", "amend.*agreement"})
             watch == _has(t, {"without.*notice", "at any time.*modif"})
             detail == IF watch
                       THEN "Terms can be changed at any time without notice - continued use implies acceptance."
                       ELSE "The provider can update these terms over time."
         IN  KeyPoint("Terms Changes", "[memo]", "Right to Modify Terms", detail, watch, evidence)

LawsOfPattern == "laws? of (the )?([A-Z][a-z]+(?:\\s[A-Z][a-z]+)?)"

_detect_governing_law(t) ==
    IF ~_has(t, {"governing law", "jurisdiction", "laws of the state"}) THEN None
    ELSE LET m == SearchGroups(LawsOfPattern, t, FALSE)
             j == IF m # None THEN m.group[2] ELSE "a specific jurisdiction"
             evidence == _find_evidence(t, {"governing law", "jurisdiction"})
         IN  KeyPoint("Governing Law", "[classical building]", "Applicable Law & Jurisdiction",
                 "This agreement is governed by the laws of " \o j \o ". Disputes may need to be resolved there.",
                 FALSE, evidence)

_detect_non_compete(t) ==
    IF ~_has(t, {"non.compete", "non.solicit", "restraint of trade"}) THEN None
    ELSE LET base == "A non-compete or non-solicitation clause is present - you may be restricted from working for competitors."
             m == SearchGroups("(\\d+)\\s*(month|year)", t, TRUE)
             detail == IF m # None
                       THEN base \o " The restriction period appears to be " \o m.group[1] \o " " \o m.group[2] \o "(s)."
                       ELSE base
             evidence == _find_evidence(t, {"non.compete", "non.solicit", "restraint of trade"})
         IN  KeyPoint("Non-Compete", "[no pedestrians]", "Non-Compete Clause", detail, TRUE, evidence)

_detect_loan_default(t) ==
    IF ~_has(t, {"default", "acceleration", "foreclosure", "repossess"}) THEN None
    ELSE LET evidence == _find_evidence(t, {"default", "foreclosure", "repossess", "acceleration"})
         IN  KeyPoint("Default & Consequences", "[collision]", "Default Provisions",
                 "The document outlines consequences for default - this may include acceleration of full repayment, asset seizure, or foreclosure.",
                 TRUE, evidence)

_detect_health_data(t) ==
    IF ~_has(t, {"hipaa", "health.*data", "medical.*record", "protected health", "\\bphi\\b"}) THEN None
    ELSE LET evidence == _find_evidence(t, {"hipaa", "health.*data", "medical.*record"})
             watch == _has(t, {"share.*health", "disclose.*health", "third.*health"})
             detail == IF watch
                       THEN "Your health data may be shared with third parties - verify scope and purpose."
                       ELSE "Health data is involved. HIPAA or equivalent protections may apply."
         IN  KeyPoint("Health Data", "[hospital]", "Health & Medical Data", detail, watch, evidence)

_detect_telecom(t) ==
    IF ~_has(t, {"roaming", "data cap", "fair use", "throttl", "network management"}) THEN None
    ELSE LET evidence == _find_evidence(t, {"roaming", "throttl", "data cap"})
             th == _has(t, {"throttl", "speed.*reduc"})
             ro == _has(t, {"roaming"})
             d1 == IF th
                   THEN "Your data speeds may be throttled after exceeding a usage threshold."
                   ELSE "Network usage policies are defined."
             detail == IF ro THEN d1 \o " Roaming charges may apply outside your home network." ELSE d1
             watch == th \/ ro
         IN  KeyPoint("Network & Roaming", "[satellite antenna]", "Data Limits & Roaming", detail, watch, evidence)

_detect_security_deposit(t) ==
    IF ~_has(t, {"security deposit", "bond\\b", "damage.*deposit"}) THEN None
    ELSE LET evidence == _find_evidence(t, {"security deposit", "bond", "deposit"})
         IN  KeyPoint("Security Deposit", "[bank]", "Security Deposit",
                 "A security deposit is required. Review the conditions under which it can be withheld or deducted.",
                 TRUE, evidence)

_detect_force_majeure(t) ==
    IF ~_has(t, {"force majeure", "act of god", "beyond.*control", "unforeseeable"}) THEN None
    ELSE LET evidence == _find_evidence(t, {"force majeure", "act of god", "beyond.*control"})
         IN  KeyPoint("Force Majeure", "[tornado]", "Force Majeure",
                 "A force majeure clause limits the provider's obligations during extraordinary events (natural disasters, pandemics, etc.).",
                 FALSE, evidence)

_detect_sla(t) ==
    IF ~_has(t, {"\\bsla\\b", "service level", "uptime", "availability.*%", "downtime"}) THEN None
    ELSE LET evidence == _find_evidence(t, {"uptime", "service level", "downtime"})
             m == SearchGroups("(\\d{2,3}(?:\\.\\d+)?)\\s*%", t, FALSE)
             uptime == IF m # None THEN m.group[1] \o "%" ELSE "a defined"
             watch == _has(t, {"no credit", "sole remedy.*credit", "not liable.*downtime"})
             d1 == "An SLA guarantees " \o uptime \o " uptime."
             detail == IF watch
                       THEN d1 \o " However, compensation for downtime may be limited to service credits only."
                       ELSE d1
         IN  KeyPoint("Service Level", "[bar chart]", "Uptime & SLA Guarantee", detail, watch, evidence)

_detect_age_restriction(t) ==
    IF ~_has(t, {"(\\d+)\\s*years? of age", "must be\\s*\\d+", "age.*requirement", "minors?"}) THEN None
    ELSE LET m == SearchGroups("(\\d+)\\s*years? of age|must be (\\d+)", t, TRUE)
             \* (m.group(1) or m.group(2)) if m else "a minimum"
             age == IF m # None THEN (IF m.group[1] # "" THEN m.group[1] ELSE m.group[2]) ELSE "a minimum"
             evidence == _find_evidence(t, {"years? of age", "must be \\d+", "minor"})
         IN  KeyPoint("Age Restriction", "[no one under eighteen]", "Age Requirement",
                 "Users must be at least " \o age \o " years old. Parental consent may be required for minors.",
                 FALSE, evidence)

\* DETECTORS, in the order of the list: what each returns on the text
DETECTORS(t) ==
    << _detect_payment(t), _detect_renewal(t), _detect_cancellation(t), _detect_refund(t),
       _detect_data_privacy(t), _detect_cookies(t), _detect_liability(t), _detect_arbitration(t),
       _detect_ip(t), _detect_termination(t), _detect_changes(t), _detect_governing_law(t),
       _detect_non_compete(t), _detect_loan_default(t), _detect_health_data(t),
       _detect_telecom(t), _detect_security_deposit(t), _detect_force_majeure(t),
       _detect_sla(t), _detect_age_restriction(t) >>

\* faulty variant: a finding without evidence is left out
DetectKeyPointsQuotedOnly(t) == SelectSeq(DETECTORS(t), LAMBDA r : r # None /\ r.evidence # <<>>)

\* faulty variant: every detector is run twice
DetectKeyPointsTwice(t) ==
    SelectSeq(DETECTORS(t), LAMBDA r : r # None) \o SelectSeq(DETECTORS(t), LAMBDA r : r # None)

\* [r for r in (d(text) for d in DETECTORS) if r is not None]
DetectKeyPoints(t) == SelectSeq(DETECTORS(t), LAMBDA r : r # None)

\* -------------------------------------------------------------- red flags
RED_FLAG_RULES ==
    << <<"sell.*personal (data|information)", "May sell your personal data to third parties.", {"sell.*personal", "personal.*sold"}>>,
       <<"share.*with.*third.part", "Your data may be shared with unspecified third parties.", {"share.*third", "third.part.*receiv"}>>,
       <<"track.*location", "Your location data may be tracked.", {"track.*location", "location.*track"}>>,
       <<"monitor.*communication", "Provider may monitor your private communications.", {"monitor.*communicat"}>>,
       <<"class action waiver", "Waives your right to participate in class action lawsuits.", {"class action"}>>,
       <<"binding arbitration", "Requires binding arbitration - limits your ability to sue.", {"binding arbitration", "arbitrat"}>>,
       <<"waive.*right", "Contains clauses where you waive important legal rights.", {"waive.*right", "right.*waiv"}>>,
       <<"irrevocable.*licen", "Grants an irrevocable license over your content.", {"irrevocable.*licen"}>>,
       <<"perpetual.*licen.*royalty.free", "Grants unlimited, perpetual, royalty-free use of your content.", {"perpetual.*licen", "royalty.free"}>>,
       <<"no refund|non.refundable|all sales final", "No refunds under any circumstances.", {"no refund", "non.refundable"}>>,
       <<"accelerat.*repayment|full.*amount.*due", "Default may trigger immediate repayment of full balance.", {"accelerat", "full.*amount.*due"}>>,
       <<"wage.*garnish", "Wages may be garnished in case of default.", {"wage.*garnish"}>>,
       <<"(modif|change|amend).*without.*notice", "Terms can be changed without notifying you.", {"without.*notice", "change.*terms"}>>,
       <<"terminat.*without (prior )?notice", "Account can be terminated without any notice.", {"terminat.*without.*notice"}>>,
       <<"at our sole discretion", "Provider has unchecked discretion on key decisions.", {"sole discretion"}>>,
       <<"unilateral.*modif", "Provider can unilaterally modify the agreement.", {"unilateral"}>>,
       <<"not responsible.*any (loss|damage)", "Provider disclaims all responsibility for losses.", {"not responsible.*loss", "not liable.*damage"}>>,
       <<"indemnif.*attorney.*fees", "You may be liable for the provider's legal fees.", {"indemnif.*attorney", "attorney.*fees"}>>,
       <<"foreclosure", "Non-payment may result in foreclosure of your property.", {"foreclosure"}>>,
       <<"non.compete.*(\\d+)\\s*year", "Non-compete clause restricts you for a multi-year period.", {"non.compete.*year"}>>,
       <<"cross.default", "Default on one obligation may trigger default on all.", {"cross.default"}>>,
       <<"repossess", "Assets may be repossessed in case of default.", {"repossess"}>> >>

RECURSIVE RedFlagLoopQuotedOnly(_, _, _, _)
\* faulty variant: a rule whose evidence search finds nothing emits no flag
RedFlagLoopQuotedOnly(toks, i, flags, seen_messages) ==
    IF i > Len(RED_FLAG_RULES) THEN flags
    ELSE LET rule == RED_FLAG_RULES[i]
         IN  IF /\ Search(rule[1], lower(toks))
                /\ rule[2] \notin seen_messages
                /\ _find_evidence(toks, rule[3]) # <<>>
             THEN RedFlagLoopQuotedOnly(toks, i + 1,
                      Append(flags, RedFlag(rule[2], _find_evidence(toks, rule[3]))),
                      seen_messages \cup {rule[2]})
             ELSE RedFlagLoopQuotedOnly(toks, i + 1, flags, seen_messages)

RECURSIVE RedFlagLoop(_, _, _, _)
\* the for loop of detect_red_flags from rule i on
RedFlagLoop(toks, i, flags, seen_messages) ==
    IF i > Len(RED_FLAG_RULES) THEN flags
    ELSE LET rule == RED_FLAG_RULES[i]
         IN  IF Search(rule[1], lower(toks)) /\ rule[2] \notin seen_messages
             THEN RedFlagLoop(toks, i + 1,
                      Append(flags, RedFlag(rule[2], _find_evidence(toks, rule[3]))),
                      seen_messages \cup {rule[2]})
             ELSE RedFlagLoop(toks, i + 1, flags, seen_messages)

detect_red_flags(toks) == RedFlagLoop(toks, 1, <<>>, {})

\* -------------------------------------------------- before-signing checklist
MaxChecklist == 7

\* faulty variant: the two generic items are added whether or not a rule fired
FinishChecklistAlwaysFallback(items) ==
    LET all == items \o <<"Read the full document carefully before agreeing.",
                          "Check for any trial periods, fees, or commitments involved.",
                          "Keep a copy of this document for your records once signed.">>
    IN  SubSeq(all, 1, Min(MaxChecklist, Len(all)))

\* faulty variant: the list is returned whole
FinishChecklistUncut(items) ==
    IF items = <<>>
    THEN <<"Read the full document carefully before agreeing.",
           "Check for any trial periods, fees, or commitments involved.",
           "Keep a copy of this document for your records once signed.">>
    ELSE Append(items, "Keep a copy of this document for your records once signed.")

\* the fallback items of an empty list, the closing item, and items[:7]
FinishChecklist(items) ==
    LET filled == IF items = <<>>
                  THEN <<"Read the full document carefully before agreeing.",
                         "Check for any trial periods, fees, or commitments involved.">>
                  ELSE items
        all == Append(filled, "Keep a copy of this document for your records once signed.")
    IN  SubSeq(all, 1, Min(MaxChecklist, Len(all)))

build_checklist(toks, doc_type, risk_level) ==
    LET Item(cond, str) == IF cond THEN <<str>> ELSE <<>>
        m == SearchGroups(LawsOfPattern, toks, FALSE)
    IN  FinishChecklist(
               Item(_has(toks, {"auto.?renew", "automatically renew"}),
                    "Confirm the auto-renewal date and how to cancel before it triggers.")
            \o Item(_has(toks, {"binding arbitration"}),
                    "Understand that by signing you likely give up your right to sue in court.")
            \o Item(_has(toks, {"personal data", "data.*collect"}),
                    "Review exactly what personal data is collected and who it is shared with.")
            \o Item(_has(toks, {"no refund", "non.refundable"}),
                    "Note there are no refunds - be certain before committing.")
            \o Item(_has(toks, {"foreclosure", "repossess", "collateral"}),
                    "Understand what assets are at risk if you default on your obligations.")
            \o Item(_has(toks, {"non.compete", "non.solicit"}),
                    "Review the non-compete clause - it may restrict future employment.")
            \o Item(_has(toks, {"hipaa", "health.*data", "medical.*record"}),
                    "Verify how your health data is stored, protected, and who can access it.")
            \o Item(_has(toks, {"roaming", "data cap", "throttl"}),
                    "Check data caps, throttling thresholds, and roaming charges carefully.")
            \o (IF _has(toks, {"governing law", "jurisdiction"}) /\ m # None
                THEN <<"Disputes will be handled under " \o m.group[2] \o " law - check if this affects you.">>
                ELSE <<>>)
            \o Item(_has(toks, {"indemnif"}),
                    "Understand the indemnification clause - you may be financially responsible for third-party claims.")
            \o Item(_has(toks, {"intellectual property", "license.*content"}),
                    "Check what rights you grant to the platform over content you upload.")
            \o Item(risk_level = "High",
                    "Given the high risk level, consider having a legal professional review this document."))

\* ---------------------------------------------------- document-type detection
DOC_TYPE_RULES ==
    << <<"Insurance Policy",
          <<"insur\\w+", "premium", "claim", "policyholder", "deductible", "coverage", "beneficiar", "underwr", "actuar">> >>,
       <<"Loan / Credit Agreement",
          <<"\\bloan\\b", "borrow", "\\blender\\b", "\\bprincipal\\b", "interest rate", "repayment", "\\bdefault\\b", "collateral", "credit\\s+facilit">> >>,
       <<"Mortgage Agreement",
          <<"mortgage", "\\bproperty\\b", "\\bdeed\\b", "foreclosure", "escrow", "\\blien\\b", "amortiz", "real estate">> >>,
       <<"Investment / Securities",
          <<"securities", "invest\\w+", "portfolio", "dividend", "\\bshare\\b", "\\bfund\\b", "\\bbroker\\b", "fiduciary", "risk\\s+disclosur">> >>,
       <<"Lease / Rental Agreement",
          <<"\\blease\\b", "tenancy", "landlord", "\\btenant\\b", "\\brent\\b", "premises", "eviction", "security deposit", "notice to vacate">> >>,
       <<"Employment Contract",
          <<"employ\\w+", "\\bsalary\\b", "termination", "non.compete", "confidentialit", "severance", "probation\\w+">> >>,
       <<"SaaS / Software License",
          <<"software.as.a.service", "\\bsaas\\b", "license\\s+grant", "api\\s+access", "\\bseat\\b", "end.user\\s+licen">> >>,
       <<"Mobile App Terms",
          <<"mobile app", "app store", "google play", "push notification", "in.app purchase", "device\\s+permiss">> >>,
       <<"Cloud Services Agreement",
          <<"\\bcloud\\b", "infrastructure", "\\buptime\\b", "\\bsla\\b", "service level", "data center", "storage\\s+capacit">> >>,
       <<"Open Source License",
          <<"open.source", "\\bgnu\\b", "mit license", "apache license", "redistribute", "copyleft", "permissive">> >>,
       <<"E-Commerce / Shopping",
          <<"shopping cart", "refund policy", "return policy", "\\bseller\\b", "\\bbuyer\\b", "checkout", "order confirmation">> >>,
       <<"Subscription Service",
          <<"subscription", "monthly plan", "annual plan", "free trial", "\\bupgrade\\b", "\\bdowngrade\\b", "billing cycle">> >>,
       <<"Streaming / Media",
          <<"stream\\w+", "content library", "\\bwatch\\b", "episode", "playlist", "download.*offline", "simultaneous stream">> >>,
       <<"Travel & Hospitality",
          <<"booking", "reservation", "check.in", "check.out", "cancellation policy", "\\bhotel\\b", "\\bflight\\b", "itinerary", "passenger", "travell?\\w+">> >>,
       <<"Telecommunications",
          <<"telecom", "mobile plan", "data plan", "roaming", "network\\s+coverage", "sim card", "\\bcarrier\\b", "broadband">> >>,
       <<"Healthcare / Medical",
          <<"patient", "healthcare", "medical record", "\\bhipaa\\b", "treatment", "physician", "diagnos", "health data", "telehealth">> >>,
       <<"Financial Advisory",
          <<"financial advice", "\\badvisor\\b", "wealth management", "asset management", "fee.based", "\\bcommission\\b", "suitability">> >>,
       <<"Privacy Policy",
          <<"personal data", "\\bgdpr\\b", "data controller", "\\bcookie\\b", "data subject", "\\bccpa\\b", "right to erasure", "data retention">> >>,
       <<"Social Media Platform",
          <<"\\bpost\\b", "\\bprofile\\b", "followers", "content moderation", "community guideline", "\\bhashtag\\b", "\\bfeed\\b">> >>,
       <<"Website Terms of Use",
          <<"\\bwebsite\\b", "\\bsite\\b", "user account", "terms of (use|service)", "acceptable use", "hyperlink", "web content">> >> >>

DefaultDocType == "General Terms & Conditions"

\* len(re.findall(p, tok)) inside one token
CountIn(p, tok) ==
    IF ~MatchesIn(p, tok) THEN 0
    ELSE IF <<tok, p>> \in DOMAIN Multi THEN Multi[<<tok, p>>] ELSE 1

\* len(re.findall(p, t)): non-overlapping matches, left to right.  A pattern with ".*" is
\* greedy up to its last piece's last occurrence in the one-line text, so it matches at
\* most once; any other pattern matches inside tokens only.
FindallCount(p, toks) ==
    IF p \in DOMAIN StarPatterns
    THEN (IF Search(p, toks) THEN 1 ELSE 0)
    ELSE SumSeq([i \in DOMAIN toks |-> CountIn(p, toks[i])])

\* sum(len(re.findall(p, t)) for p in pats) of rule i
DocTypeScore(toks, i) ==
    LET t == lower(toks)
        pats == DOC_TYPE_RULES[i][2]
    IN  SumSeq([k \in DOMAIN pats |-> FindallCount(pats[k], t)])

\* faulty variant: of several maximal rules the last one wins
BestDocTypeLast(score) ==
    LET positive == {i \in DOMAIN DOC_TYPE_RULES : score[i] > 0}
    IN  IF positive = {} THEN DefaultDocType
        ELSE LET best == CHOOSE i \in positive :
                            /\ \A k \in positive : score[k] <= score[i]
                            /\ \A k \in positive : score[k] = score[i] => i >= k
             IN  DOC_TYPE_RULES[best][1]

\* max(scores, key=scores.get) over the rules scoring above 0, or the default: max() keeps
\* the first of several maximal keys, and the dict keeps the order of DOC_TYPE_RULES
BestDocType(score) ==
    LET positive == {i \in DOMAIN DOC_TYPE_RULES : score[i] > 0}
    IN  IF positive = {} THEN DefaultDocType
        ELSE LET best == CHOOSE i \in positive :
                            /\ \A k \in positive : score[k] <= score[i]
                            /\ \A k \in positive : score[k] = score[i] => i <= k
             IN  DOC_TYPE_RULES[best][1]

\* detect_document_type(text): the scores of the rules, then the pick
detect_document_type(toks) == BestDocType([i \in DOMAIN DOC_TYPE_RULES |-> DocTypeScore(toks, i)])

\* ------------------------------------------------------------------ summary
SUMMARY_TEMPLATES ==
    ("Insurance Policy" :>
        "This is an insurance policy outlining coverage terms, exclusions, premiums, and claim procedures. It defines your rights as a policyholder and what events or losses are covered.")
    @@ ("Loan / Credit Agreement" :>
        "This is a loan or credit agreement governing borrowed funds, repayment schedules, interest rates, and consequences of default.")
    @@ ("Mortgage Agreement" :>
        "This is a mortgage agreement securing a loan against real property. It covers repayment terms, interest, default consequences including foreclosure rights.")
    @@ ("Investment / Securities" :>
        "This is an investment or securities agreement covering risk disclosures, fees, fiduciary obligations, and the management of your assets or portfolio.")
    @@ ("Lease / Rental Agreement" :>
        "This is a lease or rental agreement outlining tenancy terms, rent obligations, maintenance responsibilities, and conditions for eviction.")
    @@ ("Employment Contract" :>
        "This is an employment agreement covering compensation, confidentiality, intellectual property, non-compete obligations, and termination conditions.")
    @@ ("SaaS / Software License" :>
        "This is a software or SaaS subscription agreement governing usage rights, billing, and the provider's ability to modify or terminate the service.")
    @@ ("Mobile App Terms" :>
        "These are Terms of Service for a mobile application covering acceptable use, in-app purchases, data handling, and your rights as a user.")
    @@ ("Cloud Services Agreement" :>
        "This is a cloud services agreement covering infrastructure access, uptime guarantees (SLAs), data ownership, and service availability.")
    @@ ("Open Source License" :>
        "This is an open-source license governing how the software can be used, modified, and redistributed.")
    @@ ("E-Commerce / Shopping" :>
        "This is an e-commerce agreement covering purchases, returns, refunds, and seller/buyer obligations on the platform.")
    @@ ("Subscription Service" :>
        "This is a subscription agreement governing recurring billing, plan features, upgrade/downgrade rights, and cancellation.")
    @@ ("Streaming / Media" :>
        "This is a streaming or media service agreement covering content access, billing, simultaneous streams, and usage restrictions.")
    @@ ("Travel & Hospitality" :>
        "This is a travel or hospitality agreement covering bookings, cancellations, refunds, passenger obligations, and liability for travel disruptions.")
    @@ ("Telecommunications" :>
        "This is a telecommunications agreement covering your mobile or broadband plan, data limits, roaming charges, and network usage policies.")
    @@ ("Healthcare / Medical" :>
        "This is a healthcare or medical services agreement covering patient rights, data privacy (HIPAA), treatment consent, and billing.")
    @@ ("Financial Advisory" :>
        "This is a financial advisory agreement covering the scope of advice, fee structures, fiduciary duty, conflicts of interest, and liability.")
    @@ ("Privacy Policy" :>
        "This is a Privacy Policy describing what personal data is collected, how it is used, who it is shared with, and your rights regarding that data.")
    @@ ("Social Media Platform" :>
        "These are Terms of Service for a social media platform covering content rights, community standards, data use, and account management.")
    @@ ("Website Terms of Use" :>
        "These are Website Terms of Use governing how you may access and interact with the site, including user accounts, content, and liability.")
    @@ ("General Terms & Conditions" :>
        "This is a general Terms & Conditions document outlining the rules, rights, and obligations between you and the provider.")

LongDocumentWords == 3000

\* len(text.split()): the whitespace-separated words of the text
SplitCount(toks) == SumSeq([i \in DOMAIN toks |-> IF IsSpace(toks[i]) THEN 0 ELSE TextStats[toks[i]].split])

build_summary(doc_type, toks) ==
    LET base == IF doc_type \in DOMAIN SUMMARY_TEMPLATES
                THEN SUMMARY_TEMPLATES[doc_type]
                ELSE SUMMARY_TEMPLATES[DefaultDocType]
    IN  IF SplitCount(toks) > LongDocumentWords
        THEN base \o " The document is comprehensive - take time to read key sections carefully."
        ELSE base

\* -------------------------------------------------------------- readability
\* Numbers the program rounds to one decimal are held in tenths (47.3 is 473).

\* n / d rounded to the nearest integer, ties to even (d > 0)
RoundDiv(n, d) ==
    LET q == n \div d
        r == n - q * d
    IN  IF 2 * r < d THEN q
        ELSE IF 2 * r > d THEN q + 1
        ELSE IF q % 2 = 0 THEN q ELSE q + 1

RECURSIVE SentenceCount(_, _)
\* len([s for s in re.split(r'[.!?]+', text) if s.strip()]): a piece counts when it holds
\* more than whitespace; pending tells whether the piece being read already does
SentenceCount(toks, pending) ==
    IF toks = <<>> THEN (IF pending THEN 1 ELSE 0)
    ELSE IF IsSpace(Head(toks)) THEN SentenceCount(Tail(toks), pending)
    ELSE LET st == TextStats[Head(toks)]
         IN  IF st.stops = 0 THEN SentenceCount(Tail(toks), TRUE)
             ELSE (IF pending \/ st.head THEN 1 ELSE 0) + st.inner
                  + SentenceCount(Tail(toks), st.tail)

\* the sum of one TextStats field over the atoms of the text
StatSum(toks, f) == SumSeq([i \in DOMAIN toks |-> IF IsSpace(toks[i]) THEN 0 ELSE TextStats[toks[i]][f]])

ReadabilityScore(flesch_ease, flesch_grade, gunning_fog, avg_sentence_len, avg_word_len, complex_word_pct, grade_label, ease_label) ==
    [flesch_ease |-> flesch_ease, flesch_grade |-> flesch_grade, gunning_fog |-> gunning_fog,
     avg_sentence_len |-> avg_sentence_len, avg_word_len |-> avg_word_len,
     complex_word_pct |-> complex_word_pct, grade_label |-> grade_label, ease_label |-> ease_label]

\* round(x, 1) in tenths: the exact quotient rounded, unless the double the program computes
\* rounds elsewhere
Round1(formula, a, b, c, exact) == Lookup(FloatRounding, <<formula, a, b, c>>, exact)

\* the scores and labels of a text with these counts
ReadabilityOf(num_sentences, num_words, num_syllables, num_complex, letters) ==
    LET avg_sentence_len == Round1("avg_sentence_len", num_words, num_sentences, 0,
                                   RoundDiv(10 * num_words, num_sentences))
        avg_word_len     == Round1("avg_word_len", letters, num_words, 0,
                                   RoundDiv(10 * letters, num_words))
        complex_pct      == Round1("complex_pct", num_complex, num_words, 0,
                                   RoundDiv(1000 * num_complex, num_words))
        \* 206.835 - 1.015 * (words / sentences) - 84.6 * (syllables / words), in tenths
        ease_raw == Round1("flesch_ease", num_sentences, num_words, num_syllables,
                           RoundDiv(206835 * num_sentences * num_words
                                    - 1015 * num_words * num_words
                                    - 84600 * num_syllables * num_sentences,
                                    100 * num_sentences * num_words))
        flesch_ease == Max(0, Min(1000, ease_raw))
        \* 0.39 * (words / sentences) + 11.8 * (syllables / words) - 15.59, in tenths
        grade_raw == Round1("flesch_grade", num_sentences, num_words, num_syllables,
                            RoundDiv(39 * num_words * num_words
                                     + 1180 * num_syllables * num_sentences
                                     - 1559 * num_sentences * num_words,
                                     10 * num_sentences * num_words))
        flesch_grade == Max(0, grade_raw)
        \* 0.4 * (avg_sentence_len + complex_pct), in tenths
        gunning_fog == Round1("gunning_fog", avg_sentence_len, complex_pct, 0,
                              RoundDiv(4 * (avg_sentence_len + complex_pct), 10))
        labels == IF flesch_ease >= 800
                  THEN <<"Very Easy", "Plain English - anyone can understand this.">>
                  ELSE IF flesch_ease >= 650
                  THEN <<"Easy", "Fairly accessible language - most adults can follow it.">>
                  ELSE IF flesch_ease >= 500
                  THEN <<"Moderate", "Requires some concentration - equivalent to a magazine article.">>
                  ELSE IF flesch_ease >= 350
                  THEN <<"Difficult", "Academic-level language - requires careful reading.">>
                  ELSE IF flesch_ease >= 200
                  THEN <<"Very Difficult", "Dense legal or technical writing - hard to follow for most people.">>
                  ELSE <<"Very Confusing", "Extremely complex - consider asking a professional to explain it.">>
    IN  ReadabilityScore(flesch_ease, flesch_grade, gunning_fog, avg_sentence_len, avg_word_len,
                         complex_pct, labels[1], labels[2])

\* compute_readability(text): the counts of sentences, words, syllables, complex words and
\* letters (sum(len(w) for w in words_raw)), then the scores
compute_readability(toks) ==
    ReadabilityOf(Max(SentenceCount(toks, FALSE), 1),
                  Max(StatSum(toks, "words"), 1),
                  StatSum(toks, "syllables"),
                  StatSum(toks, "complex"),
                  StatSum(toks, "letters"))

\* --------------------------------------------------------------- entry point
AnalysisResult(document_type, document_summary, risk_level, risk_reason, risk_score, readability, key_points, red_flags, before_signing, word_count, char_count) ==
    [document_type |-> document_type, document_summary |-> document_summary,
     risk_level |-> risk_level, risk_reason |-> risk_reason, risk_score |-> risk_score,
     readability |-> readability, key_points |-> key_points, red_flags |-> red_flags,
     before_signing |-> before_signing, word_count |-> word_count, char_count |-> char_count]

Raised(msg) == [kind |-> "raised", error |-> "ValueError", message |-> msg]
Returned(v) == [kind |-> "returned", value |-> v]

\* analyze(text): raises on a text that is empty once normalised, else the full result
analyze(raw) ==
    LET t == _clean(raw)
    IN  IF t = <<>> THEN Raised("Empty document.")
        ELSE LET doc_type == detect_document_type(t)
                 risk == compute_risk(t)
             IN  Returned(AnalysisResult(
                     doc_type,
                     build_summary(doc_type, t),
                     risk[1], risk[2], risk[3],
                     compute_readability(t),
                     DetectKeyPoints(t),
                     detect_red_flags(t),
                     build_checklist(t, doc_type, risk[1]),
                     SplitCount(t),
                     Len(Concat(t))))

\* ------------------------------------------------------------ serialisation
\* A dict is a function from its keys; an object is a record of its fields.  The key
\* "readability" is in the dict only when the object has a readability score.
KeyPointDict(kp) ==
    [category |-> kp.category, icon |-> kp.icon, title |-> kp.title,
     detail |-> kp.detail, watch_out |-> kp.watch_out, evidence |-> kp.evidence]

RedFlagDict(rf) == [message |-> rf.message, evidence |-> rf.evidence]

ReadabilityDict(rd) ==
    [flesch_ease |-> rd.flesch_ease, flesch_grade |-> rd.flesch_grade,
     gunning_fog |-> rd.gunning_fog, avg_sentence_len |-> rd.avg_sentence_len,
     avg_word_len |-> rd.avg_word_len, complex_word_pct |-> rd.complex_word_pct,
     grade_label |-> rd.grade_label, ease_label |-> rd.ease_label]

\* AnalysisResult.to_dict(self)
to_dict(self) ==
    LET d == [document_type |-> self.document_type,
              document_summary |-> self.document_summary,
              risk_level |-> self.risk_level,
              risk_reason |-> self.risk_reason,
              risk_score |-> self.risk_score,
              before_signing |-> self.before_signing,
              word_count |-> self.word_count,
              char_count |-> self.char_count,
              key_points |-> [i \in DOMAIN self.key_points |-> KeyPointDict(self.key_points[i])],
              red_flags |-> [i \in DOMAIN self.red_flags |-> RedFlagDict(self.red_flags[i])]]
    IN  IF self.readability # None
        THEN ("readability" :> ReadabilityDict(self.readability)) @@ d
        ELSE d

\* KeyPoint(**kp), RedFlag(**rf), ReadabilityScore(**d["readability"])
KeyPointFromDict(kp) ==
    KeyPoint(kp.category, kp.icon, kp.title, kp.detail, kp.watch_out, kp.evidence)

RedFlagFromDict(rf) == RedFlag(rf.message, rf.evidence)

\* faulty variant: the two counters are not read back and keep the dataclass default
from_dict_without_counts(d) ==
    LET r == AnalysisResult(
                 d["document_type"], d["document_summary"], d["risk_level"], d["risk_reason"],
                 d["risk_score"],
                 None,
                 [i \in DOMAIN d["key_points"] |-> KeyPointFromDict(d["key_points"][i])],
                 [i \in DOMAIN d["red_flags"] |-> RedFlagFromDict(d["red_flags"][i])],
                 d["before_signing"], 0, 0)
    IN  IF "readability" \in DOMAIN d
        THEN [r EXCEPT !.readability = d["readability"]]
        ELSE r

\* AnalysisResult.from_dict(d): the constructor leaves readability None, and the key
\* "readability", when present, fills it in afterwards
from_dict(d) ==
    LET r == AnalysisResult(
                 d["document_type"], d["document_summary"], d["risk_level"], d["risk_reason"],
                 d["risk_score"],
                 None,
                 [i \in DOMAIN d["key_points"] |-> KeyPointFromDict(d["key_points"][i])],
                 [i \in DOMAIN d["red_flags"] |-> RedFlagFromDict(d["red_flags"][i])],
                 d["before_signing"], d["word_count"], d["char_count"])
    IN  IF "readability" \in DOMAIN d
        THEN LET rd == d["readability"]
             IN  [r EXCEPT !.readability =
                     ReadabilityScore(rd.flesch_ease, rd.flesch_grade, rd.gunning_fog,
                                      rd.avg_sentence_len, rd.avg_word_len, rd.complex_word_pct,
                                      rd.grade_label, rd.ease_label)]
        ELSE r

\* ------------------------------------------------------------------ scoring
\* The composite score is a double.  Every double the scorer meets is a multiple of a
\* tenth plus a rounding residue, and is held as <<T, e>>, standing for
\* T/10 + e * U with U = 2^-54 / 5:  0.3 is the double 3/10 - U, 0.2 is 2/10 + U, and
\* 0.5 is exact.  |e * U| stays far below a tenth, so doubles compare by T, then by e.

RECURSIVE Pow2(_)
Pow2(n) == IF n = 0 THEN 1 ELSE 2 * Pow2(n - 1)

RECURSIVE Binade(_, _, _)
\* the largest k >= from with 2^k <= T/10 + e*U; the values met are 0 or at least 0.5
Binade(T, e, from) ==
    IF 10 * Pow2(from + 2) < 2 * T \/ (10 * Pow2(from + 2) = 2 * T /\ e >= 0)
    THEN Binade(T, e, from + 1)
    ELSE from

\* the double nearest to T/10 + e*U, ties to the even mantissa.  With the value in
\* [2^k, 2^(k+1)) doubles are G = 5 * 2^(k+2) units of U apart, and T/10 = T * 2^53 units
\* lies P * m above a double, P = 2^(k+2), m = (T * 2^(51-k)) mod 5.
RoundToDouble(T, e) ==
    IF T = 0 /\ e = 0 THEN <<0, 0>>
    ELSE LET k == Binade(T, e, -1)
             P == Pow2(k + 2)
             G == 5 * P
             m == (T * <<1, 2, 4, 3>>[((51 - k) % 4) + 1]) % 5
             s == P * m + e
             d == s \div G
             rho == s % G
             c == IF 2 * rho < G THEN 0
                  ELSE IF 2 * rho > G THEN 1
                  ELSE (m + d) % 2
         IN  <<T, (d + c) * G - P * m>>

FloatAdd(x, y) == RoundToDouble(x[1] + y[1], x[2] + y[2])
FloatLess(x, y) == x[1] < y[1] \/ (x[1] = y[1] /\ x[2] < y[2])

\* round(x, 1) of a score, in tenths
RoundScore(x) == x[1]

\* sum(1 for kp in result.key_points if kp.watch_out)
WatchCount(result) == Cardinality({i \in DOMAIN result.key_points : result.key_points[i].watch_out})

\* faulty variant: the two weights 0.3 and 0.2 change places
_composite_score_swapped(result) ==
    LET watch_count == WatchCount(result)
        risk_term  == <<5 * result.risk_score, 0>>
        flag_term  == RoundToDouble(2 * (Len(result.red_flags) * 4), Len(result.red_flags) * 4)
        watch_term == RoundToDouble(3 * (watch_count * 3), -(watch_count * 3))
    IN  FloatAdd(FloatAdd(risk_term, flag_term), watch_term)

\* result.risk_score * 0.5 + len(result.red_flags) * 4 * 0.3 + watch_count * 3 * 0.2
_composite_score(result) ==
    LET watch_count == WatchCount(result)
        risk_term  == <<5 * result.risk_score, 0>>
        flag_term  == RoundToDouble(3 * (Len(result.red_flags) * 4), -(Len(result.red_flags) * 4))
        watch_term == RoundToDouble(2 * (watch_count * 3), watch_count * 3)
    IN  FloatAdd(FloatAdd(risk_term, flag_term), watch_term)

RECURSIVE Join(_, _)
\* sep.join(items)
Join(sep, items) ==
    IF items = <<>> THEN ""
    ELSE IF Len(items) = 1 THEN items[1]
    ELSE items[1] \o sep \o Join(sep, Tail(items))

\* s[:n] of a list
Take(s, n) == SubSeq(s, 1, Min(n, Len(s)))

Categories(kps) == [i \in DOMAIN kps |-> kps[i].category]

SumRisk(all_results) == SumSeq([i \in DOMAIN all_results |-> all_results[i][2].risk_score])
SumFlags(all_results) == SumSeq([i \in DOMAIN all_results |-> Len(all_results[i][2].red_flags)])

\* _strengths(name, result, all_results); the averages are compared exactly: an average
\* that is no integer is no closer to one as a double
_strengths(name, result, all_results) ==
    LET n == Len(all_results)
        good_pts == SelectSeq(result.key_points, LAMBDA kp : ~kp.watch_out)
        items ==
            (IF result.risk_score * n < SumRisk(all_results) - 10 * n
             THEN <<"Risk score (" \o ToString(result.risk_score) \o "/100) is well below average">>
             ELSE <<>>)
            \o (IF Len(result.red_flags) * n < SumFlags(all_results)
                THEN <<"Fewer red flags than most alternatives">> ELSE <<>>)
            \o (IF good_pts # <<>>
                THEN <<"Favourable terms on: " \o Join(", ", Categories(Take(good_pts, 3)))>>
                ELSE <<>>)
            \o (IF result.readability # None /\ result.readability.flesch_ease >= 500
                THEN <<"Written in relatively plain language">> ELSE <<>>)
    IN  IF items # <<>> THEN Take(items, 3) ELSE <<"No particular strengths identified">>

\* _weaknesses(name, result, all_results)
_weaknesses(name, result, all_results) ==
    LET n == Len(all_results)
        watch_pts == SelectSeq(result.key_points, LAMBDA kp : kp.watch_out)
        items ==
            (IF result.risk_score * n > SumRisk(all_results) + 10 * n
             THEN <<"Risk score (" \o ToString(result.risk_score) \o "/100) is above average">>
             ELSE <<>>)
            \o (IF result.red_flags # <<>>
                THEN <<ToString(Len(result.red_flags)) \o " red flag(s) detected">> ELSE <<>>)
            \o (IF watch_pts # <<>>
                THEN <<"Concerning clauses: " \o Join(", ", Categories(Take(watch_pts, 3)))>>
                ELSE <<>>)
            \o (IF result.readability # None /\ result.readability.flesch_ease < 350
                THEN <<"Complex, hard-to-follow language">> ELSE <<>>)
    IN  IF items # <<>> THEN Take(items, 3) ELSE <<>>

\* ---------------------------------------------------------- category matrix
MATRIX_CATEGORY_ORDER ==
    <<"Privacy & Data", "Dispute Resolution", "Account Termination", "Auto-Renewal",
      "Cancellation", "Refunds", "Payment & Billing", "Liability", "Intellectual Property",
      "Terms Changes", "Cookies & Tracking", "Non-Compete", "Health Data",
      "Default & Consequences", "Security Deposit", "Network & Roaming", "Service Level",
      "Force Majeure", "Age Restriction", "Governing Law">>

UnlistedKey == 999
MaxCellDetail == 120

MatrixCell(present, watch_out, detail) ==
    [present |-> present, watch_out |-> watch_out, detail |-> detail]

CategoryRow(category, icon, cells) == [category |-> category, icon |-> icon, cells |-> cells]

\* faulty variant: a category that is not listed gets the key -1
sort_key_unlisted_first(c) ==
    IF \E i \in DOMAIN MATRIX_CATEGORY_ORDER : MATRIX_CATEGORY_ORDER[i] = c
    THEN (CHOOSE i \in DOMAIN MATRIX_CATEGORY_ORDER : MATRIX_CATEGORY_ORDER[i] = c) - 1
    ELSE 0 - 1

\* MATRIX_CATEGORY_ORDER.index(c), or 999 for a category that is not listed
sort_key(c) ==
    IF \E i \in DOMAIN MATRIX_CATEGORY_ORDER : MATRIX_CATEGORY_ORDER[i] = c
    THEN (CHOOSE i \in DOMAIN MATRIX_CATEGORY_ORDER : MATRIX_CATEGORY_ORDER[i] = c) - 1
    ELSE UnlistedKey

RECURSIVE InsertByKey(_, _)
\* one step of the stable sort of sorted(all_cats.keys(), key=sort_key): cat goes behind
\* every category whose key is not greater
InsertByKey(sorted, cat) ==
    IF sorted = <<>> THEN <<cat>>
    ELSE IF sort_key(cat) < sort_key(Head(sorted)) THEN <<cat>> \o sorted
    ELSE <<Head(sorted)>> \o InsertByKey(Tail(sorted), cat)

RECURSIVE SortCategories(_, _)
SortCategories(cats, sorted) ==
    IF cats = <<>> THEN sorted
    ELSE SortCategories(Tail(cats), InsertByKey(sorted, Head(cats)))

\* name_to_result[n] of {name: r for name, r in doc_pairs}: a later pair replaces an
\* earlier pair of the same name
name_to_result(doc_pairs_, n) ==
    LET last == CHOOSE i \in DOMAIN doc_pairs_ :
                    /\ doc_pairs_[i][1] = n
                    /\ \A j \in DOMAIN doc_pairs_ : doc_pairs_[j][1] = n => j <= i
    IN  doc_pairs_[last][2]

RECURSIVE CollectCategories(_, _)
\* all_cats: (category, icon) in first-seen order over the key points of the ordered
\* documents, the icon being that of the first key point seen
CollectCategories(kps, all_cats) ==
    IF kps = <<>> THEN all_cats
    ELSE IF \E i \in DOMAIN all_cats : all_cats[i][1] = Head(kps).category
         THEN CollectCategories(Tail(kps), all_cats)
         ELSE CollectCategories(Tail(kps), Append(all_cats, <<Head(kps).category, Head(kps).icon>>))

RECURSIVE Flatten(_)
Flatten(seqs) == IF seqs = <<>> THEN <<>> ELSE Head(seqs) \o Flatten(Tail(seqs))

\* next((k for k in result.key_points if k.category == cat), None) and the cell built on it
CellFor(result, cat) ==
    LET hits == SelectSeq(result.key_points, LAMBDA k : k.category = cat)
    IN  IF hits # <<>>
        THEN MatrixCell(TRUE, hits[1].watch_out, Prefix(hits[1].detail, MaxCellDetail))
        ELSE MatrixCell(FALSE, FALSE, "Not mentioned")

\* _build_matrix(doc_pairs, ranked_names)
_build_matrix(doc_pairs_, ranked_names) ==
    LET ordered  == [j \in DOMAIN ranked_names |->
                        <<ranked_names[j], name_to_result(doc_pairs_, ranked_names[j])>>]
        all_cats == CollectCategories(Flatten([j \in DOMAIN ordered |-> ordered[j][2].key_points]), <<>>)
        icon_of(cat) == all_cats[CHOOSE i \in DOMAIN all_cats : all_cats[i][1] = cat][2]
        cats     == SortCategories([i \in DOMAIN all_cats |-> all_cats[i][1]], <<>>)
    IN  [r \in DOMAIN cats |->
            CategoryRow(cats[r], icon_of(cats[r]),
                        [j \in DOMAIN ordered |-> CellFor(ordered[j][2], cats[r])])]

\* ------------------------------------------------------------ recommendation
LowCloseGap == 5
LowRiskBelow == 30
SignificantGap == 30
MeaningfulGap == 15

UpperCase == <<"A", "B", "C", "D", "E", "F", "G", "H", "I", "J", "K", "L", "M",
               "N", "O", "P", "Q", "R", "S", "T", "U", "V", "W", "X", "Y", "Z">>
LowerCase == <<"a", "b", "c", "d", "e", "f", "g", "h", "i", "j", "k", "l", "m",
               "n", "o", "p", "q", "r", "s", "t", "u", "v", "w", "x", "y", "z">>

LowerChar(c) ==
    IF \E i \in DOMAIN UpperCase : UpperCase[i] = c
    THEN LowerCase[CHOOSE i \in DOMAIN UpperCase : UpperCase[i] = c]
    ELSE c

RECURSIVE str_lower(_)
\* str.lower() of a string the program built
str_lower(str) ==
    IF str = "" THEN ""
    ELSE LowerChar(SubSeq(str, 1, 1)) \o str_lower(SubSeq(str, 2, Len(str)))

\* second.total_score - best.total_score < 5 on the doubles that round(score, 1) left:
\* a gap under half a point is below 5 whatever the residues, any other is subtracted
\* and rounded as the machine does
FloatGapBelow(x, y) ==
    IF x[1] - y[1] < LowCloseGap THEN TRUE
    ELSE FloatLess(RoundToDouble(x[1] - y[1], x[2] - y[2]), <<10 * LowCloseGap, 0>>)

\* faulty variant: any second document is a close second
CloseSecondAlways(second, best) == TRUE

\* second.total_score - best.total_score < 5
CloseSecond(second, best) ==
    FloatGapBelow(RoundToDouble(second.total_score, 0), RoundToDouble(best.total_score, 0))

\* _build_recommendation(rankings), returning <<winner_reason, recommendation>>
_build_recommendation(rankings) ==
    LET best  == rankings[1]
        worst == rankings[Len(rankings)]
        n     == Len(rankings)
        reason_parts ==
            (IF best.result.risk_score < LowRiskBelow
             THEN <<"low risk score of " \o ToString(best.result.risk_score) \o "/100">>
             ELSE <<>>)
            \o (IF best.result.red_flags = <<>> THEN <<"no red flags">>
                ELSE IF Len(best.result.red_flags) < Len(worst.result.red_flags)
                THEN <<"fewest red flags (" \o ToString(Len(best.result.red_flags)) \o ")">>
                ELSE <<>>)
            \o (IF best.watch_count = 0 THEN <<"no concerning clauses">> ELSE <<>>)
        winner_reason ==
            IF reason_parts # <<>>
            THEN "Ranked #1 due to its " \o Join(", ", reason_parts) \o "."
            ELSE "Ranked #1 with the lowest composite risk score among all "
                 \o ToString(n) \o " documents."
        score_gap == worst.result.risk_score - best.result.risk_score
        strength == IF score_gap >= SignificantGap THEN "significantly"
                    ELSE IF score_gap >= MeaningfulGap THEN "meaningfully"
                    ELSE "slightly"
        rec0 == "Based on the analysis of " \o ToString(n) \o " documents, <strong>"
                \o best.name \o "</strong> is " \o strength \o " the safest choice. "
        rec1 == IF best.strengths # <<>>
                THEN rec0 \o "It stands out for: " \o str_lower(best.strengths[1]) \o ". "
                ELSE rec0
        rec2 == IF n > 2 /\ Len(rankings) > 1 /\ CloseSecond(rankings[2], best)
                THEN rec1 \o rankings[2].name \o " is a close second and also a reasonable option. "
                ELSE rec1
        rec3 == IF worst.result.red_flags # <<>>
                THEN rec2 \o "Avoid <strong>" \o worst.name \o "</strong> if possible - it carries "
                     \o ToString(Len(worst.result.red_flags)) \o " red flag(s) and scored "
                     \o ToString(worst.result.risk_score) \o "/100 on risk."
                ELSE rec2
    IN  <<winner_reason, rec3>>

\* ---------------------------------------------------------------- ranking
DocRanking(rank, name, result, total_score, watch_count, strengths, weaknesses) ==
    [rank |-> rank, name |-> name, result |-> result, total_score |-> total_score,
     watch_count |-> watch_count, strengths |-> strengths, weaknesses |-> weaknesses]

RECURSIVE InsertByScore(_, _)
\* faulty variant: the list is never sorted, every entry stays where it was put
InsertUnsorted(sorted, entry) == Append(sorted, entry)

\* one step of scored.sort(key=lambda x: x[2]): the sort is stable, an entry goes behind
\* every entry whose score is not greater
InsertByScore(sorted, entry) ==
    IF sorted = <<>> THEN <<entry>>
    ELSE IF FloatLess(entry[3], Head(sorted)[3]) THEN <<entry>> \o sorted
    ELSE <<Head(sorted)>> \o InsertByScore(Tail(sorted), entry)

RECURSIVE SortByScore(_, _)
SortByScore(scored, sorted) ==
    IF scored = <<>> THEN sorted
    ELSE SortByScore(Tail(scored), InsertByScore(sorted, Head(scored)))

\* faulty variant: a single document is let through
TooFewOffByOne(doc_pairs_) == Len(doc_pairs_) < 1

\* len(doc_pairs) < 2
TooFew(doc_pairs_) == Len(doc_pairs_) < 2

\* the scored list [(name, result, _composite_score(result)) ...]
Scored(doc_pairs_) ==
    [i \in DOMAIN doc_pairs_ |->
        <<doc_pairs_[i][1], doc_pairs_[i][2], _composite_score(doc_pairs_[i][2])>>]

\* the rankings of the sorted list: entry i gets rank i, its score rounded to one decimal,
\* and strengths and weaknesses against all_results = [(n, r) for n, r, _ in scored]
Rankings(scored, all_results) ==
    [i \in DOMAIN scored |->
        DocRanking(i, scored[i][1], scored[i][2],
                   RoundScore(scored[i][3]),
                   WatchCount(scored[i][2]),
                   _strengths(scored[i][1], scored[i][2], all_results),
                   _weaknesses(scored[i][1], scored[i][2], all_results))]

MultiCompareResult(ranked_names, rankings, matrix, rec) ==
    [doc_names |-> ranked_names,
     rankings |-> rankings,
     matrix |-> matrix,
     winner_name |-> rankings[1].name,
     winner_reason |-> rec[1],
     recommendation |-> rec[2],
     llm_pick |-> "",
     llm_model |-> "",
     llm_enhanced |-> FALSE]

\* ranked_names = [r.name for r in rankings]
RankedNames(rankings) == [i \in DOMAIN rankings |-> rankings[i].name]

\* the matrix and the recommendation of the rankings, and the result made of them
Compared(doc_pairs_, rankings) ==
    MultiCompareResult(RankedNames(rankings), rankings,
                       _build_matrix(doc_pairs_, RankedNames(rankings)),
                       _build_recommendation(rankings))

\* the rankings of the sorted list
Ranked(doc_pairs_, scored) ==
    Compared(doc_pairs_,
             Rankings(scored, [i \in DOMAIN scored |-> <<scored[i][1], scored[i][2]>>]))

\* multi_compare(doc_pairs)
multi_compare(doc_pairs_) ==
    IF TooFew(doc_pairs_) THEN Raised("Need at least 2 documents to compare.")
    ELSE Returned(Ranked(doc_pairs_, SortByScore(Scored(doc_pairs_), <<>>)))

\* ------------------------------------------------------------------ actions
Init ==
    /\ text = <<>>
    /\ outcome = None
    /\ subject = None
    /\ wire = None
    /\ decoded = None
    /\ doc_pairs = <<>>
    /\ compared = None
    /\ evidence_call = None
    /\ response = None
    /\ _cache = <<>>
    /\ issued = 0
    /\ handlers = [h \in 1..NumHandlers |-> [pc |-> "idle"]]
    /\ lookup = None

\* A document arrives one token at a time; two atoms never touch, so that every word and
\* every pattern match lies inside one atom or runs across whitespace.
WellFormed(toks) ==
    \A i \in 1..(Len(toks) - 1) : IsSpace(toks[i]) \/ IsSpace(toks[i + 1])

\* the text of the next request: the last one, when it was typed token by token, with one
\* more token
Receive(tok) ==
    /\ Len(text) < MaxTokens
    /\ Range(text) \subseteq Tokens \cup EvidenceAtoms
    /\ WellFormed(Append(text, tok))
    /\ text' = Append(text, tok)
    /\ outcome' = None
    /\ subject' = None
    /\ wire' = None
    /\ decoded' = None
    /\ evidence_call' = None
    /\ response' = None
    /\ UNCHANGED <<_cache, issued, handlers, lookup>>
    /\ UNCHANGED <<doc_pairs, compared>>

\* whole documents a caller pastes: the three-sentence contract of the worked example, a
\* contract on which seven checklist rules fire, four sentences whose risk patterns
\* weigh 24, 25, 49 and 50, the two sides of the two thresholds, and two sentences on
\* the governing law, without and with a jurisdiction to name, and a document of one
\* sentence too short to be quoted as evidence
PastedTexts ==
    << <<"This Agreement is governed by the laws of California.", " ",
         "Disputes shall be resolved through binding arbitration.", " ",
         "There are no refunds under any circumstances.">>,
       <<"You grant an irrevocable license, waive any right to sue, accept the class action waiver and binding arbitration, and get no refund.", " ",
         "We may sell your personal data, change these terms without notice at our sole discretion, and start foreclosure.", " ",
         "A security deposit applies and roaming is extra", " ",
         "Limitation of liability applies and you shall indemnify us.">>,
       <<"We act at our sole discretion and without notice.">>,
       <<"Binding arbitration applies and we auto-renew your plan.">>,
       <<"Binding arbitration applies, there is no refund, we act at our sole discretion, and a limitation of liability holds.">>,
       <<"Binding arbitration applies, there is no refund, we auto-renew the plan and a non-compete holds.">>,
       <<"The governing law and jurisdiction are set out in the schedule.">>,
       <<"The governing law is the laws of New York for every dispute.">>,
       <<"No refunds at all.">> >>

\* the text of the next request: a whole document
Paste(k) ==
    /\ text # PastedTexts[k]
    /\ text' = PastedTexts[k]
    /\ outcome' = None
    /\ subject' = None
    /\ wire' = None
    /\ decoded' = None
    /\ evidence_call' = None
    /\ response' = None
    /\ UNCHANGED <<_cache, issued, handlers, lookup>>
    /\ UNCHANGED <<doc_pairs, compared>>

\* analyze(text)
Analyze ==
    /\ outcome = None
    /\ outcome' = analyze(text)
    /\ UNCHANGED <<_cache, issued, handlers, lookup>>
    /\ UNCHANGED <<text, subject, wire, decoded, doc_pairs, compared, evidence_call, response>>

\* r.to_dict() on the result just returned, or on the same result without a readability
\* score (the dataclass default)
Serialize(keep_readability) ==
    /\ outcome.kind = "returned"
    /\ subject = None
    /\ LET r == IF keep_readability THEN outcome.value
                ELSE [outcome.value EXCEPT !.readability = None]
       IN  /\ subject' = r
           /\ wire' = to_dict(r)
    /\ UNCHANGED <<_cache, issued, handlers, lookup>>
    /\ UNCHANGED <<text, outcome, decoded, doc_pairs, compared, evidence_call, response>>

\* AnalysisResult.from_dict(wire)
Deserialize ==
    /\ wire # None
    /\ decoded = None
    /\ decoded' = from_dict(wire)
    /\ UNCHANGED <<_cache, issued, handlers, lookup>>
    /\ UNCHANGED <<text, outcome, subject, wire, doc_pairs, compared, evidence_call, response>>

\* the documents handed to the comparison, each analysed on its own before; every one is
\* at least 50 characters long, the least the web handlers pass on
SampleTexts ==
    << <<"We are not responsible for any loss.", " ", "Welcome", " ", "Welcome">>,
       <<"A security deposit applies and roaming is extra", " ", "Welcome">>,
       <<"A security deposit applies and roaming is extra", " ", "A non-solicit clause applies.">>,
       <<"Limitation of liability applies and you shall indemnify us.">>,
       <<"We may sell your personal data, change these terms without notice at our sole discretion, and start foreclosure.">>,
       <<"A non-solicit clause applies.", " ", "Welcome", " ", "Welcome", " ", "Welcome">> >>

\* the results of the analysis, and two a caller put together itself (multi_compare takes
\* any AnalysisResult): their key points have categories MATRIX_CATEGORY_ORDER does not list
WithCallerBuilt(analysed) ==
    analysed \o
    << [analysed[1] EXCEPT !.key_points =
            << KeyPoint("Zeta Clause", "[Z]", "Zeta Clause", "A clause of the caller's own.", FALSE, <<>>),
               KeyPoint("Alpha Clause", "[A]", "Alpha Clause", "Another clause of the caller's own.", TRUE, <<>>) >>],
       [analysed[2] EXCEPT !.key_points =
            << KeyPoint("Alpha Clause", "[A]", "Alpha Clause", "Another clause of the caller's own.", TRUE, <<>>) >> \o @] >>

SampleResults == WithCallerBuilt([k \in DOMAIN SampleTexts |-> analyze(SampleTexts[k]).value])

\* the names callers give; they are taken as sent, so two documents may share one
DocNames == {"A", "B"}

\* the caller appends (name, analyze(text)) to the list it will compare
AddDocument ==
    /\ Len(doc_pairs) < MaxDocs
    /\ \E name \in DocNames, k \in DOMAIN SampleResults :
           doc_pairs' = Append(doc_pairs, <<name, SampleResults[k]>>)
    /\ compared' = None
    /\ UNCHANGED <<_cache, issued, handlers, lookup>>
    /\ UNCHANGED <<text, outcome, subject, wire, decoded, evidence_call, response>>

\* faulty variant: the caller's list is sorted in place
MultiCompareSortingInPlace ==
    /\ compared = None
    /\ compared' = multi_compare(doc_pairs)
    /\ doc_pairs' = IF compared'.kind = "returned"
                    THEN [i \in DOMAIN doc_pairs |->
                             <<compared'.value.rankings[i].name, compared'.value.rankings[i].result>>]
                    ELSE doc_pairs
    /\ UNCHANGED <<_cache, issued, handlers, lookup>>
    /\ UNCHANGED <<text, outcome, subject, wire, decoded, evidence_call, response>>

\* multi_compare(doc_pairs)
MultiCompare ==
    /\ compared = None
    /\ compared' = multi_compare(doc_pairs)
    /\ UNCHANGED <<_cache, issued, handlers, lookup>>
    /\ UNCHANGED <<text, outcome, subject, wire, decoded, doc_pairs, evidence_call, response>>

NextCompare ==
    \/ AddDocument
    \/ MultiCompare

SpecCompare == Init /\ [][NextCompare]_vars

NextAnalyze ==
    \/ \E tok \in Tokens : Receive(tok)
    \/ \E k \in DOMAIN PastedTexts : Paste(k)
    \/ Analyze
    \/ \E keep_readability \in BOOLEAN : Serialize(keep_readability)
    \/ Deserialize

SpecAnalyze == Init /\ [][NextAnalyze]_vars

\* the tokens of the texts the evidence finder is called on
EvidenceTokens == EvidenceAtoms \cup {"We are not responsible for any loss."} \cup Whitespace

\* the *patterns of a call: none, and those of two red-flag rules
EvidencePatterns ==
    {{}, {"no refund", "non.refundable"}, {"not responsible.*loss", "not liable.*damage"}}

\* _find_evidence(text, *patterns, max_results=max_results)
FindEvidence(patterns, max_results) ==
    /\ evidence_call = None
    /\ evidence_call' = [patterns |-> patterns, max_results |-> max_results,
                         found |-> _find_evidence_n(text, patterns, max_results)]
    /\ UNCHANGED <<_cache, issued, handlers, lookup>>
    /\ UNCHANGED <<text, outcome, subject, wire, decoded, doc_pairs, compared, response>>

NextEvidence ==
    \/ \E tok \in EvidenceTokens : Receive(tok)
    \/ \E patterns \in EvidencePatterns, max_results \in 0..MaxResults :
          FindEvidence(patterns, max_results)

SpecEvidence == Init /\ [][NextEvidence]_vars

\* ---------------------------------------------------------- LLM enhancement
OLLAMA_MODEL == "llama3.2"

\* LLMInsight(model_used=..., enhanced=...): every other field at its default
LLMInsight(model_used, enhanced) ==
    [plain_summary |-> "", overall_verdict |-> "", negotiation_tips |-> <<>>,
     plain_red_flags |-> <<>>, user_questions |-> <<>>,
     model_used |-> model_used, enhanced |-> enhanced]

RECURSIVE _parse_list_response(_, _, _)
\* _parse_list_response(text, max_items): a line is <<marker, body>>; the re.sub drops the
\* marker, a body of more than 10 characters is kept, and the loop stops at max_items
_parse_list_response(lines, max_items, items) ==
    IF lines = <<>> THEN items
    ELSE LET line == Head(lines)[2]
             kept == IF line # "" /\ Len(line) > 10 THEN Append(items, line) ELSE items
         IN  IF Len(kept) >= max_items THEN kept
             ELSE _parse_list_response(Tail(lines), max_items, kept)

\* what the Ollama server may do during one call of enhance_with_llm: be switched off, be
\* unreachable, answer every prompt with an empty response, answer every prompt, or fail
\* in a way the client does not catch.  An answer is the text of a paragraph or the lines
\* of a list.
LLMs ==
    {[kind |-> "disabled"], [kind |-> "unreachable"], [kind |-> "empty"], [kind |-> "raises"],
     [kind |-> "ok",
      summary |-> "You agree to the terms of the provider.",
      verdict |-> "Sign it only if you accept the clauses flagged above.",
      tips |-> << <<"1. ", "Ask for a written refund policy.">>, <<"2. ", "Too short">>,
                  <<"3. ", "Ask for notice before any change.">> >>,
      concerns |-> << <<"- ", "The provider may change the terms alone.">> >>,
      questions |-> << <<"1) ", "Who pays when a dispute goes to arbitration?">>,
                       <<"2) ", "Can I leave without a fee?">>,
                       <<"3) ", "Where is my data stored?">>,
                       <<"4) ", "Who may read my messages?">>,
                       <<"5) ", "Is there a trial period at all?">> >>]}

\* enhance_with_llm(text, doc_type, risk_level, risk_score): the arguments go into the
\* prompts only; what comes back is the server's doing
enhance_with_llm(llm) ==
    IF llm.kind = "raises"
    THEN [kind |-> "raised", error |-> "Exception", message |-> "LLM failure"]
    ELSE IF llm.kind \in {"disabled", "unreachable"} THEN Returned(LLMInsight("", FALSE))
    ELSE IF llm.kind = "empty" THEN Returned(LLMInsight(OLLAMA_MODEL, TRUE))
    ELSE Returned([LLMInsight(OLLAMA_MODEL, TRUE) EXCEPT
                      !.plain_summary = llm.summary,
                      !.overall_verdict = llm.verdict,
                      !.negotiation_tips = _parse_list_response(llm.tips, 5, <<>>),
                      !.plain_red_flags = _parse_list_response(llm.concerns, 4, <<>>),
                      !.user_questions = _parse_list_response(llm.questions, 4, <<>>)])

\* ------------------------------------------------------------ web handlers
MinTextLen == 50

\* str.strip() of a raw text: all the whitespace at either end goes
str_strip(toks) ==
    LET solid == {i \in DOMAIN toks : ~IsSpace(toks[i])}
    IN  IF solid = {} THEN <<>>
        ELSE SubSeq(toks, CHOOSE i \in solid : \A k \in solid : i <= k,
                          CHOOSE i \in solid : \A k \in solid : i >= k)

_insight_to_dict(i) ==
    [plain_summary |-> i.plain_summary, overall_verdict |-> i.overall_verdict,
     negotiation_tips |-> i.negotiation_tips, plain_red_flags |-> i.plain_red_flags,
     user_questions |-> i.user_questions, model_used |-> i.model_used,
     enhanced |-> i.enhanced]

\* faulty variant: the insight's summary is stored over the document summary
AttachInsightOverSummary(response_data, value) ==
    [response_data EXCEPT !["document_summary"] =
        IF "plain_summary" \in DOMAIN value THEN value.plain_summary ELSE value.error]

\* response_data["llm_insight"] = value
AttachInsight(response_data, value) == ("llm_insight" :> value) @@ response_data

\* api_analyze from `try: result = analyze(text)` on
ApiRespond(analysed, use_llm, enhanced) ==
    IF analysed.kind = "raised"
    THEN [handler |-> "api_analyze", status |-> 500, body |-> [error |-> analysed.message]]
    ELSE [handler |-> "api_analyze", status |-> 200,
          body |-> IF ~use_llm THEN to_dict(analysed.value)
                   ELSE IF enhanced.kind = "returned"
                   THEN AttachInsight(to_dict(analysed.value), _insight_to_dict(enhanced.value))
                   ELSE AttachInsight(to_dict(analysed.value),
                                      [enhanced |-> FALSE, error |-> enhanced.message])]

\* api_analyze on a JSON request {"text": ..., "use_llm": ...}
api_analyze(body_text, use_llm, llm) ==
    IF str_strip(body_text) = <<>>
    THEN [handler |-> "api_analyze", status |-> 400,
          body |-> [error |-> "JSON body must contain a 'text' field."]]
    ELSE IF Len(Concat(str_strip(body_text))) < MinTextLen
    THEN [handler |-> "api_analyze", status |-> 400,
          body |-> [error |-> "Text too short (minimum 50 characters)."]]
    ELSE ApiRespond(analyze(str_strip(body_text)), use_llm, enhance_with_llm(llm))

\* analyze_doc from `try: result = analyze(text)` on: the page rendered with r and llm,
\* and the entry _cache_put stored
DocRespond(analysed, use_llm, enhanced) ==
    IF analysed.kind = "raised"
    THEN [handler |-> "analyze_doc", redirect |-> "index",
          flash |-> "Analysis error: " \o analysed.message]
    ELSE LET insight == IF use_llm /\ enhanced.kind = "returned" THEN enhanced.value
                        ELSE LLMInsight("", FALSE)
         IN  [handler |-> "analyze_doc", template |-> "result.html",
              r |-> analysed.value, llm |-> insight,
              cached |-> [result |-> to_dict(analysed.value),
                          insight |-> _insight_to_dict(insight)]]

\* analyze_doc on a form with pasted text
analyze_doc(form_text, use_llm, llm) ==
    IF str_strip(form_text) = <<>>
    THEN [handler |-> "analyze_doc", redirect |-> "index",
          flash |-> "No text found. Please paste text or upload a readable file."]
    ELSE IF Len(Concat(str_strip(form_text))) < MinTextLen
    THEN [handler |-> "analyze_doc", redirect |-> "index",
          flash |-> "Document is too short to analyze."]
    ELSE DocRespond(analyze(str_strip(form_text)), use_llm, enhance_with_llm(llm))

\* POST /api/analyze with text as the body's text
ApiAnalyze ==
    /\ response = None
    /\ \E use_llm \in BOOLEAN, llm \in LLMs :
           response' = [use_llm |-> use_llm, llm |-> llm.kind,
                        reply |-> api_analyze(text, use_llm, llm)]
    /\ UNCHANGED <<_cache, issued, handlers, lookup>>
    /\ UNCHANGED <<text, outcome, subject, wire, decoded, doc_pairs, compared, evidence_call>>

\* POST /analyze with text as the form's text
AnalyzeDoc ==
    /\ response = None
    /\ \E use_llm \in BOOLEAN, llm \in LLMs :
           response' = [use_llm |-> use_llm, llm |-> llm.kind,
                        reply |-> analyze_doc(text, use_llm, llm)]
    /\ UNCHANGED <<_cache, issued, handlers, lookup>>
    /\ UNCHANGED <<text, outcome, subject, wire, decoded, doc_pairs, compared, evidence_call>>

\* the tokens of the texts typed into the web handlers: sentences of fewer and of more
\* than 50 characters
WebTokens ==
    {"Welcome", "We are not responsible for any loss.",
     "Disputes shall be resolved through binding arbitration."} \cup Whitespace

NextWeb ==
    \/ \E tok \in WebTokens : Receive(tok)
    \/ \E k \in DOMAIN PastedTexts : Paste(k)
    \/ ApiAnalyze
    \/ AnalyzeDoc

SpecWeb == Init /\ [][NextWeb]_vars


\* ============================================================ the web cache
\* _MAX_CACHE
_MAX_CACHE == 50

\* how many keys are drawn in all
MaxKeys == 53

\* the first WarmUp requests come one after the other from the three routes in turn
WarmUp == 48

\* the n-th request's payload stands for what its to_dict() calls returned: two payloads
\* are equal exactly when they come from the same request
\* _cache[key] = {...}: analyze_doc through _cache_put, compare_analyze, multi_compare_analyze
CacheStore(c, key, route) ==
    LET payload == [kind |-> "dict", request |-> key]
    IN
    Append(c, [key |-> key,
               entry |-> CASE route = "analyze" -> [result |-> payload, insight |-> payload]
                           [] route = "compare" -> [compare |-> payload]
                           [] route = "multi" -> [multi |-> payload]])

\* the routes the n-th request may come from
RoutesAt(n) ==
    IF n <= WarmUp THEN {<<"analyze", "compare", "multi">>[((n - 1) % 3) + 1]}
    ELSE {"analyze", "compare", "multi"}

\* faulty variant: a full cache grows
CachePutNoEviction(route) ==
    /\ issued < MaxKeys
    /\ route \in RoutesAt(issued + 1)
    /\ issued' = issued + 1
    /\ _cache' = CacheStore(_cache, issued + 1, route)
    /\ lookup' = None
    /\ UNCHANGED <<text, outcome, subject, wire, decoded, doc_pairs, compared, evidence_call, response, handlers>>

\* one request's insertion, start to end: key = str(uuid.uuid4()); if len(_cache) >=
\* _MAX_CACHE: del _cache[next(iter(_cache))]; _cache[key] = {...}
CachePut(route) ==
    /\ issued < MaxKeys
    /\ route \in RoutesAt(issued + 1)
    /\ issued' = issued + 1
    /\ _cache' = CacheStore(IF Len(_cache) >= _MAX_CACHE THEN Tail(_cache) ELSE _cache,
                            issued + 1, route)
    /\ lookup' = None
    /\ UNCHANGED <<text, outcome, subject, wire, decoded, doc_pairs, compared, evidence_call, response, handlers>>

\* _cache_get(key): entry = _cache.get(key); if not entry: return None, None;
\* entry["result"] and entry["insight"] raise KeyError when the entry has no such item
_cache_get(c, key) ==
    LET at == {i \in DOMAIN c : c[i].key = key}
    IN
    IF at = {} THEN [kind |-> "returned", result |-> None, insight |-> None]
    ELSE LET entry == c[CHOOSE i \in at : TRUE].entry
         IN
         IF "result" \notin DOMAIN entry THEN [kind |-> "raised", error |-> "KeyError", item |-> "result"]
         ELSE IF "insight" \notin DOMAIN entry THEN [kind |-> "raised", error |-> "KeyError", item |-> "insight"]
         ELSE [kind |-> "returned", result |-> entry.result, insight |-> entry.insight]

\* an export route: _get_cached() with the key of the request (0: the request and the
\* session carry none), then "no analysis found" when result is None
ExportRoute(key) ==
    /\ lookup' = [key |-> key,
                  did |-> IF key = 0 THEN [kind |-> "returned", result |-> None, insight |-> None]
                          ELSE _cache_get(_cache, key)]
    /\ lookup' # lookup
    /\ UNCHANGED <<text, outcome, subject, wire, decoded, doc_pairs, compared, evidence_call, response,
                   _cache, issued, handlers>>

\* The requests come one at a time.
NextCache ==
    \/ \E route \in {"analyze", "compare", "multi"} : CachePut(route)
    \/ \E key \in 0..MaxKeys : key <= issued + 1 /\ ExportRoute(key)

SpecCache == Init /\ [][NextCache]_vars

\* ------------------------------------------------ the same lines, thread by thread
\* key = str(uuid.uuid4()); if len(_cache) >= _MAX_CACHE:
HandlerCheck(h, route) ==
    /\ handlers[h].pc = "idle"
    /\ issued < MaxKeys
    /\ route \in RoutesAt(issued + 1)
    /\ issued < WarmUp => \A g \in DOMAIN handlers : handlers[g].pc = "idle"
    /\ issued' = issued + 1
    /\ handlers' = [handlers EXCEPT ![h] =
                        [pc |-> IF Len(_cache) >= _MAX_CACHE THEN "iter" ELSE "store",
                         key |-> issued + 1, route |-> route]]
    /\ UNCHANGED <<text, outcome, subject, wire, decoded, doc_pairs, compared, evidence_call, response,
                   _cache, lookup>>

\* next(iter(_cache))
HandlerPick(h) ==
    /\ handlers[h].pc = "iter"
    /\ handlers' = [handlers EXCEPT ![h] =
                        IF _cache = <<>>
                        THEN [pc |-> "failed", error |-> "StopIteration", key |-> @.key, route |-> @.route]
                        ELSE [pc |-> "del", victim |-> _cache[1].key, key |-> @.key, route |-> @.route]]
    /\ UNCHANGED <<text, outcome, subject, wire, decoded, doc_pairs, compared, evidence_call, response,
                   _cache, issued, lookup>>

\* del _cache[...]
HandlerDelete(h) ==
    /\ handlers[h].pc = "del"
    /\ LET present == \E i \in DOMAIN _cache : _cache[i].key = handlers[h].victim
       IN
       /\ _cache' = SelectSeq(_cache, LAMBDA item : item.key # handlers[h].victim)
       /\ handlers' = [handlers EXCEPT ![h] =
                           IF present
                           THEN [pc |-> "store", key |-> @.key, route |-> @.route]
                           ELSE [pc |-> "failed", error |-> "KeyError", key |-> @.key, route |-> @.route]]
    /\ UNCHANGED <<text, outcome, subject, wire, decoded, doc_pairs, compared, evidence_call, response,
                   issued, lookup>>

\* _cache[key] = {...}, and the handler returns; a handler that failed has answered 500
HandlerStore(h) ==
    /\ \/ /\ handlers[h].pc = "store"
          /\ _cache' = CacheStore(_cache, handlers[h].key, handlers[h].route)
       \/ /\ handlers[h].pc = "failed"
          /\ UNCHANGED _cache
    /\ handlers' = [handlers EXCEPT ![h] = [pc |-> "idle"]]
    /\ UNCHANGED <<text, outcome, subject, wire, decoded, doc_pairs, compared, evidence_call, response,
                   issued, lookup>>

\* The server's threads take their steps in any order.
NextThreads ==
    \/ \E h \in 1..NumHandlers, route \in {"analyze", "compare", "multi"} : HandlerCheck(h, route)
    \/ \E h \in 1..NumHandlers : HandlerPick(h)
    \/ \E h \in 1..NumHandlers : HandlerDelete(h)
    \/ \E h \in 1..NumHandlers : HandlerStore(h)

SpecThreads == Init /\ [][NextThreads]_vars

\* ===================================================== properties: analyze
\* C1: for every text that is not empty after normalisation, analyze returns a result
\* whose risk_score is an integer from 0 to 100, whichever risk patterns match.
C1_RiskScoreInRange ==
    (outcome # None /\ \E i \in DOMAIN text : ~IsSpace(text[i])) =>
        /\ outcome.kind = "returned"
        /\ outcome.value.risk_score \in 0..100

\* the matched weights add up to more than 100 and a result came back
C1_Witness ==
    /\ outcome.kind = "returned"
    /\ RiskSum(_clean(text)) > 100

\* C2: analyze raises the empty-document error exactly when the text is empty after
\* whitespace normalisation; every other text, however short, gets a fully populated
\* result and no error.
C2_EmptyDocumentOnly ==
    LET Blank == \A i \in DOMAIN text : IsSpace(text[i])   \* nothing but whitespace
    IN
    outcome # None =>
        /\ Blank <=> outcome = [kind |-> "raised", error |-> "ValueError", message |-> "Empty document."]
        /\ ~Blank =>
              /\ outcome.kind = "returned"
              /\ DOMAIN outcome.value =
                     {"document_type", "document_summary", "risk_level", "risk_reason",
                      "risk_score", "readability", "key_points", "red_flags",
                      "before_signing", "word_count", "char_count"}
              /\ outcome.value.document_type # ""
              /\ outcome.value.document_summary # ""
              /\ outcome.value.risk_level \in {"Low", "Medium", "High"}
              /\ outcome.value.risk_reason # ""
              /\ outcome.value.readability # None
              /\ outcome.value.before_signing # <<>>
              /\ outcome.value.word_count >= 1
              /\ outcome.value.char_count >= 1

\* a text of whitespace only, several characters long, was refused
C2_Witness ==
    /\ outcome.kind = "raised"
    /\ Len(text) >= 2

\* C3: from_dict(to_dict(r)) equals r field for field, nested values included, for a
\* result with or without a readability score.
C3_RoundTrip == decoded # None => decoded = subject

\* a result without readability score, with key points and red flags that carry
\* evidence, went through to_dict and from_dict
C3_Witness ==
    /\ decoded # None
    /\ subject.readability = None
    /\ \E i \in DOMAIN subject.key_points : subject.key_points[i].evidence # <<>>
    /\ \E i \in DOMAIN subject.red_flags : subject.red_flags[i].evidence # <<>>

\* C4: the risk score never decreases when risk-pattern occurrences are added: for the
\* text analysed (B) and the same text with one token less (A), if every pattern that
\* matches A also matches B then score(A) <= score(B).
C4_RiskMonotone ==
    outcome.kind = "returned" =>
        \A i \in DOMAIN text :
            LET shorter == SubSeq(text, 1, i - 1) \o SubSeq(text, i + 1, Len(text))
                a == _clean(shorter)
            IN  (WellFormed(shorter) /\ RiskMatches(a) \subseteq RiskMatches(_clean(text)))
                    => compute_risk(a)[3] <= outcome.value.risk_score

\* the analysed text matches strictly more patterns than the text without its last
\* token, which already scores above zero, and the sum of its weights passes the cap
C4_Witness ==
    /\ outcome.kind = "returned"
    /\ Len(text) >= 3
    /\ LET a == _clean(SubSeq(text, 1, Len(text) - 1))
       IN  /\ RiskMatches(a) # {}
           /\ RiskMatches(a) \subseteq RiskMatches(_clean(text))
           /\ RiskMatches(a) # RiskMatches(_clean(text))
           /\ RiskSum(_clean(text)) > RiskCap

\* =============================================== properties: multi_compare
\* C5: multi_compare with 0 or 1 pairs fails with the insufficient-input error and
\* yields no result; with 2 or more pairs it never raises that error.
C5_NeedsTwoDocuments ==
    compared # None =>
        /\ Len(doc_pairs) < 2 =>
              compared = [kind |-> "raised", error |-> "ValueError",
                          message |-> "Need at least 2 documents to compare."]
        /\ Len(doc_pairs) >= 2 => compared.kind = "returned"

\* a comparison of exactly one document was refused
C5_Witness ==
    /\ Len(doc_pairs) = 1
    /\ compared.kind = "raised"

\* C6: with N >= 2 inputs the rankings list has N entries, their ranks are 1..N in
\* list order, total_score never decreases along the list (so rank 1 has the least),
\* and each total_score is 0.5*risk_score + 0.3*(4*red flags) + 0.2*(3*watch-outs),
\* here in tenths: 5*risk_score + 12*red flags + 6*watch-outs.
C6_RankedByScore ==
    compared.kind = "returned" =>
        LET R == compared.value.rankings
            watch(r) == Cardinality({i \in DOMAIN r.key_points : r.key_points[i].watch_out})
        IN  /\ Len(R) = Len(doc_pairs)
            /\ \A i \in DOMAIN R : R[i].rank = i
            /\ \A i, j \in DOMAIN R : i < j => R[i].total_score <= R[j].total_score
            /\ \A j \in DOMAIN R : R[1].total_score <= R[j].total_score
            /\ \A i \in DOMAIN R :
                   R[i].total_score = 5 * R[i].result.risk_score
                                      + 12 * Len(R[i].result.red_flags)
                                      + 6 * watch(R[i].result)

\* three documents were ranked, and the one handed in first came out last
C6_Witness ==
    /\ compared.kind = "returned"
    /\ Len(doc_pairs) = 3
    /\ compared.value.rankings[3].result = doc_pairs[1][2]
    /\ compared.value.rankings[3].total_score > compared.value.rankings[1].total_score

\* C7: documents with the same composite score are ranked in their input order: among
\* the documents of any one score, the rankings list keeps the order of the input list.
C7_TiesKeepInputOrder ==
    compared.kind = "returned" =>
        LET R == compared.value.rankings
            watch(r) == Cardinality({i \in DOMAIN r.key_points : r.key_points[i].watch_out})
            score(r) == 5 * r.risk_score + 12 * Len(r.red_flags) + 6 * watch(r)
            ranked == [i \in DOMAIN R |-> <<R[i].name, R[i].result>>]
        IN  \A k \in DOMAIN doc_pairs :
                LET tied(pair) == score(pair[2]) = score(doc_pairs[k][2])
                IN  SelectSeq(ranked, tied) = SelectSeq(doc_pairs, tied)

\* C8 as stated: of two documents with the same risk_score and different numbers of red
\* flags, the one with fewer red flags is ranked first, whatever their key points are.
C8_FewerFlagsFirst_AsStated ==
    compared.kind = "returned" =>
        LET R == compared.value.rankings
        IN  \A i, j \in DOMAIN R :
                (/\ R[i].result.risk_score = R[j].result.risk_score
                 /\ Len(R[i].result.red_flags) < Len(R[j].result.red_flags))
                    => i < j

\* C8 as amended: of two documents with the same risk_score, the one with fewer red
\* flags is ranked first as long as its watch-out key points do not make up for the
\* difference: 0.3 * 4 * (red flags fewer) > 0.2 * 3 * (watch-outs more).
C8_FewerFlagsFirst ==
    compared.kind = "returned" =>
        LET R == compared.value.rankings
        IN  \A i, j \in DOMAIN R :
                (/\ R[i].result.risk_score = R[j].result.risk_score
                 /\ Len(R[i].result.red_flags) < Len(R[j].result.red_flags)
                 /\ 12 * (Len(R[j].result.red_flags) - Len(R[i].result.red_flags))
                        > 6 * (R[i].watch_count - R[j].watch_count))
                    => i < j

\* a document with fewer red flags and more watch-outs than another of the same
\* risk_score was handed in behind it and ranked ahead of it
C8_Witness ==
    /\ compared.kind = "returned"
    /\ Len(doc_pairs) = 2
    /\ doc_pairs[1][2].risk_score = doc_pairs[2][2].risk_score
    /\ Len(doc_pairs[2][2].red_flags) < Len(doc_pairs[1][2].red_flags)
    /\ compared.value.rankings[1].result = doc_pairs[2][2]
    /\ compared.value.rankings[1].watch_count > compared.value.rankings[2].watch_count

\* C9: for N >= 2 pairs, whatever the names, the matrix has exactly one row for each
\* key-point category found in any of the N input documents, no other row, and every
\* row has N cells.
C9_MatrixRows ==
    compared.kind = "returned" =>
        LET M == compared.value.matrix
            categories(r) == {r.key_points[i].category : i \in DOMAIN r.key_points}
            union == UNION {categories(doc_pairs[d][2]) : d \in DOMAIN doc_pairs}
        IN  /\ {M[r].category : r \in DOMAIN M} = union
            /\ Len(M) = Cardinality(union)
            /\ \A r \in DOMAIN M : Len(M[r].cells) = Len(doc_pairs)

\* C10: in every matrix row, cell j describes the result held by rankings[j]: present,
\* with the watch_out and the first 120 characters of the detail of that result's key
\* point of the row's category, or present = false, watch_out = false, detail
\* "Not mentioned" when it has none; also when two documents share a name.
C10_CellsDescribeRanked ==
    compared.kind = "returned" =>
        LET M == compared.value.matrix
            R == compared.value.rankings
        IN  \A r \in DOMAIN M, j \in DOMAIN R :
                LET kps  == R[j].result.key_points
                    hits == {i \in DOMAIN kps : kps[i].category = M[r].category}
                IN  /\ j \in DOMAIN M[r].cells
                    /\ IF hits # {}
                       THEN LET kp == kps[CHOOSE i \in hits : \A h \in hits : i <= h]
                                n  == IF Len(kp.detail) > 120 THEN 120 ELSE Len(kp.detail)
                            IN  M[r].cells[j] = [present |-> TRUE, watch_out |-> kp.watch_out,
                                                 detail |-> SubSeq(kp.detail, 1, n)]
                       ELSE M[r].cells[j] = [present |-> FALSE, watch_out |-> FALSE,
                                             detail |-> "Not mentioned"]

\* ============================================== properties: _find_evidence
\* the sentences _find_evidence visits: the pieces of the split, each cleaned
EvidenceSentences ==
    LET pieces == SplitSentences(text, <<>>)
    IN  [i \in DOMAIN pieces |-> _clean(pieces[i])]

\* C11: every sentence _find_evidence returns is 20 to 500 characters long and is one
\* of the text's sentences that a pattern of the call matches when case is ignored
C11_EvidenceQualifies ==
    evidence_call # None =>
        \A i \in DOMAIN evidence_call.found :
            /\ Len(evidence_call.found[i]) >= 20
            /\ Len(evidence_call.found[i]) <= 500
            /\ \E j \in DOMAIN EvidenceSentences :
                   /\ Concat(EvidenceSentences[j]) = evidence_call.found[i]
                   /\ \E p \in evidence_call.patterns : Search(p, lower(EvidenceSentences[j]))

\* sentences of exactly 20 and of exactly 500 characters are returned while the text
\* also holds a matching sentence that is too short or too long
C11_Witness ==
    /\ evidence_call # None
    /\ \E i \in DOMAIN evidence_call.found : Len(evidence_call.found[i]) \in {20, 500}
    /\ \E j \in DOMAIN EvidenceSentences :
           /\ Len(Concat(EvidenceSentences[j])) \in {19, 501}
           /\ \E p \in evidence_call.patterns : Search(p, lower(EvidenceSentences[j]))
\* C12: _find_evidence returns no more than max_results sentences, whatever max_results is
C12_AtMostMaxResults ==
    evidence_call # None => Len(evidence_call.found) <= evidence_call.max_results

\* C13: no two returned sentences share the lower-cased first 80 characters, and the
\* returned sentences are sentences of the text in the text's order, each the first
\* qualifying sentence with its key
C13_DistinctInOrder ==
    evidence_call # None =>
        LET found == evidence_call.found
            sents == [j \in DOMAIN EvidenceSentences |-> Concat(EvidenceSentences[j])]
            Key(str) == str_lower(Prefix(str, 80))
            Qualifies(j) ==
                /\ Len(sents[j]) >= 20
                /\ Len(sents[j]) <= 500
                /\ \E p \in evidence_call.patterns : Search(p, lower(EvidenceSentences[j]))
        IN  /\ \A i, k \in DOMAIN found : i < k => Key(found[i]) # Key(found[k])
            /\ \E at \in [DOMAIN found -> DOMAIN sents] :
                   /\ \A i, k \in DOMAIN found : i < k => at[i] < at[k]
                   /\ \A i \in DOMAIN found :
                          /\ sents[at[i]] = found[i]
                          /\ \A j \in 1..(at[i] - 1) :
                                 Qualifies(j) => Key(sents[j]) # Key(found[i])

\* two qualifying sentences that differ in case only, with room for both: only the
\* first is returned
C13_Witness ==
    /\ evidence_call # None
    /\ Len(evidence_call.found) = 1
    /\ evidence_call.max_results >= 2
    /\ \E j, k \in DOMAIN EvidenceSentences :
           /\ j < k
           /\ Concat(EvidenceSentences[j]) = evidence_call.found[1]
           /\ Concat(EvidenceSentences[k]) # evidence_call.found[1]
           /\ str_lower(Prefix(Concat(EvidenceSentences[k]), 80))
                  = str_lower(Prefix(evidence_call.found[1], 80))
           /\ \E p \in evidence_call.patterns : Search(p, lower(EvidenceSentences[k]))

\* ------------------------------------------------- properties: the checklist
\* C14: the checklist of every result has at least 1 and at most 7 items
C14_ChecklistSize ==
    (outcome # None /\ outcome.kind = "returned") =>
        /\ Len(outcome.value.before_signing) >= 1
        /\ Len(outcome.value.before_signing) <= 7

\* a high-risk document whose checklist is full
C14_Witness ==
    /\ outcome # None
    /\ outcome.kind = "returned"
    /\ outcome.value.risk_level = "High"
    /\ Len(outcome.value.before_signing) = 7

\* C20: "Keep a copy of this document for your records once signed." is in every checklist,
\* as its last item
C20_KeepACopyLast ==
    (outcome # None /\ outcome.kind = "returned") =>
        LET items == outcome.value.before_signing
        IN  /\ items # <<>>
            /\ items[Len(items)] = "Keep a copy of this document for your records once signed."

\* ------------------------------------------- properties: the document type
\* C15: the document type is the category of the highest summed match count, the first of
\* the table among several highest, and "General Terms & Conditions" when every category
\* counts 0; it is always one of the table's 20 categories or that default
C15_HighestCountFirstInTable ==
    (outcome # None /\ outcome.kind = "returned") =>
        LET t == _clean(text)
            count == [i \in DOMAIN DOC_TYPE_RULES |-> DocTypeScore(t, i)]
            top == {i \in DOMAIN DOC_TYPE_RULES : \A k \in DOMAIN DOC_TYPE_RULES : count[k] <= count[i]}
            doc_type == outcome.value.document_type
        IN  /\ Len(DOC_TYPE_RULES) = 20
            /\ doc_type # ""
            /\ doc_type \in {DOC_TYPE_RULES[i][1] : i \in DOMAIN DOC_TYPE_RULES}
                              \cup {"General Terms & Conditions"}
            /\ IF \A i \in DOMAIN DOC_TYPE_RULES : count[i] = 0
               THEN doc_type = "General Terms & Conditions"
               ELSE \E i \in top : /\ \A k \in top : i <= k
                                   /\ doc_type = DOC_TYPE_RULES[i][1]

\* two categories tie for the highest count, and the result is the earlier one
C15_Witness ==
    /\ outcome # None
    /\ outcome.kind = "returned"
    /\ LET t == _clean(text)
           count == [i \in DOMAIN DOC_TYPE_RULES |-> DocTypeScore(t, i)]
       IN  \E i, k \in DOMAIN DOC_TYPE_RULES :
               /\ i < k
               /\ count[i] > 0
               /\ count[i] = count[k]
               /\ \A j \in DOMAIN DOC_TYPE_RULES : count[j] <= count[i]
               /\ outcome.value.document_type = DOC_TYPE_RULES[i][1]

\* ------------------------------------------------ properties: the risk tier
\* C16: risk_level is "High" exactly when risk_score >= 50, "Medium" exactly when
\* 25 <= risk_score < 50, "Low" exactly when risk_score < 25, and risk_reason is the
\* canned string of that tier
C16_LevelAgreesWithScore ==
    (outcome # None /\ outcome.kind = "returned") =>
        LET r == outcome.value
        IN  /\ r.risk_level = "High" <=> r.risk_score >= 50
            /\ r.risk_level = "Medium" <=> (25 <= r.risk_score /\ r.risk_score < 50)
            /\ r.risk_level = "Low" <=> r.risk_score < 25
            /\ r.risk_level = "High" =>
                   r.risk_reason = "Contains several aggressive clauses - liability waivers, arbitration requirements, or data-sharing terms."
            /\ r.risk_level = "Medium" =>
                   r.risk_reason = "Has some notable clauses around liability, data use, or cancellation that deserve attention."
            /\ r.risk_level = "Low" =>
                   r.risk_reason = "Mostly standard terms with no particularly aggressive conditions detected."

\* a document whose score is exactly the high threshold
C16_Witness ==
    /\ outcome # None
    /\ outcome.kind = "returned"
    /\ outcome.value.risk_score = 50
    /\ outcome.value.risk_level = "High"

\* ----------------------------------------------- properties: the risk score
\* C18 as stated: analyze returns risk_level "High" for the Scenario A text
C18_ScenarioAHigh ==
    (text = PastedTexts[1] /\ outcome # None) =>
        /\ outcome.kind = "returned"
        /\ outcome.value.risk_level = "High"

\* C18: analyze returns risk_level "Medium" with risk_score 30 for the Scenario A text: of
\* the risk patterns only "binding arbitration" and "no refund", 15 each, are found in it
C18_ScenarioAMedium ==
    (text = PastedTexts[1] /\ outcome # None) =>
        /\ outcome.kind = "returned"
        /\ outcome.value.risk_level = "Medium"
        /\ outcome.value.risk_score = 30

\* the Scenario A text has been analysed
C18_Witness ==
    /\ text = PastedTexts[1]
    /\ outcome # None
    /\ outcome.kind = "returned"

\* C19: the score is min(100, the sum of the weights of the RISK_PATTERNS entries found at
\* least once in the lower-cased text): once per entry however often it is found, nothing
\* for an entry that is not found
C19_WeightOncePerEntry ==
    (outcome # None /\ outcome.kind = "returned") =>
        LET t == lower(_clean(text))
            weight == [i \in DOMAIN RISK_PATTERNS |->
                          IF Search(RISK_PATTERNS[i][2], t) THEN RISK_PATTERNS[i][1] ELSE 0]
        IN  outcome.value.risk_score = Min(100, SumSeq(weight))

\* an entry is found in two sentences of the text, another in none, and the sum is
\* below the cap
C19_Witness ==
    /\ outcome # None
    /\ outcome.kind = "returned"
    /\ outcome.value.risk_score > 0
    /\ outcome.value.risk_score < 100
    /\ LET t == lower(_clean(text))
       IN  /\ \E i \in DOMAIN RISK_PATTERNS : \E j, k \in DOMAIN t :
                  /\ j < k
                  /\ MatchesIn(RISK_PATTERNS[i][2], t[j])
                  /\ MatchesIn(RISK_PATTERNS[i][2], t[k])
           /\ \E i \in DOMAIN RISK_PATTERNS : ~Search(RISK_PATTERNS[i][2], t)

\* -------------------------------------------- properties: the web handlers
\* C17: whatever the LLM does (switched off, unreachable, empty answers, answers, failure),
\* a request whose text passes the gates is answered with the result analyze computed,
\* every field and every key of its dict unchanged, and the enhancement adds at most the
\* key "llm_insight"
C17_LLMLeavesCoreAlone ==
    (response # None /\ Len(Concat(str_strip(text))) >= 50) =>
        LET core == analyze(str_strip(text)).value
            d == to_dict(core)
            reply == response.reply
        IN  IF reply.handler = "api_analyze"
            THEN /\ reply.status = 200
                 /\ DOMAIN d \subseteq DOMAIN reply.body
                 /\ \A key \in DOMAIN d : reply.body[key] = d[key]
                 /\ DOMAIN reply.body \ DOMAIN d \subseteq {"llm_insight"}
            ELSE /\ "r" \in DOMAIN reply
                 /\ reply.r = core
                 /\ reply.cached.result = d

\* the LLM answered every prompt and the reply carries both the core result and the insight
C17_Witness ==
    /\ response # None
    /\ response.use_llm
    /\ response.llm = "ok"
    /\ response.reply.handler = "api_analyze"
    /\ response.reply.status = 200
    /\ "llm_insight" \in DOMAIN response.reply.body
    /\ response.reply.body["llm_insight"].enhanced
    /\ response.reply.body["llm_insight"].plain_summary # ""
    /\ Len(response.reply.body["llm_insight"].user_questions) = 4
    /\ response.reply.body["risk_score"] > 0

\* ------------------------------------ properties: the checklist's fallback
\* C21: when no conditional rule appends an item (the governing-law rule appends one only
\* when its gate matches and a jurisdiction is captured; the last rule only at risk level
\* High), the checklist is the two generic items and the keep-a-copy item; when a rule
\* appends an item, neither generic item is in the checklist
C21_FallbackOnlyWhenNothingFired ==
    (outcome # None /\ outcome.kind = "returned") =>
        LET t == _clean(text)
            items == outcome.value.before_signing
            gates == {{"auto.?renew", "automatically renew"}, {"binding arbitration"},
                      {"personal data", "data.*collect"}, {"no refund", "non.refundable"},
                      {"foreclosure", "repossess", "collateral"}, {"non.compete", "non.solicit"},
                      {"hipaa", "health.*data", "medical.*record"},
                      {"roaming", "data cap", "throttl"}, {"indemnif"},
                      {"intellectual property", "license.*content"}}
            appended ==
                \/ \E g \in gates : _has(t, g)
                \/ /\ _has(t, {"governing law", "jurisdiction"})
                   /\ SearchGroups(LawsOfPattern, t, FALSE) # None
                \/ outcome.value.risk_level = "High"
        IN  IF appended
            THEN /\ "Read the full document carefully before agreeing." \notin Range(items)
                 /\ "Check for any trial periods, fees, or commitments involved." \notin Range(items)
            ELSE items = <<"Read the full document carefully before agreeing.",
                           "Check for any trial periods, fees, or commitments involved.",
                           "Keep a copy of this document for your records once signed.">>

\* the governing-law gate matches a document that names no jurisdiction, and the checklist
\* is the fallback
C21_Witness ==
    /\ outcome # None
    /\ outcome.kind = "returned"
    /\ _has(_clean(text), {"governing law", "jurisdiction"})
    /\ SearchGroups(LawsOfPattern, _clean(text), FALSE) = None
    /\ Len(outcome.value.before_signing) = 3
    /\ outcome.value.before_signing[1] = "Read the full document carefully before agreeing."

\* ------------------------------------- properties: red flags and key points
\* C22: a flag is emitted for a RED_FLAG_RULES entry exactly when its trigger matches the
\* lower-cased text and no earlier entry emitted the same message; the flags are in table
\* order, no two carry the same message, and a flag is emitted also without evidence
C22_OneFlagPerMessage ==
    (outcome # None /\ outcome.kind = "returned") =>
        LET t == lower(_clean(text))
            flags == outcome.value.red_flags
            Emits(i) ==
                /\ Search(RED_FLAG_RULES[i][1], t)
                /\ ~\E j \in 1..(i - 1) : /\ Search(RED_FLAG_RULES[j][1], t)
                                          /\ RED_FLAG_RULES[j][2] = RED_FLAG_RULES[i][2]
            emitting == SelectSeq([i \in DOMAIN RED_FLAG_RULES |-> i], Emits)
        IN  /\ [k \in DOMAIN flags |-> flags[k].message]
                   = [k \in DOMAIN emitting |-> RED_FLAG_RULES[emitting[k]][2]]
            /\ \A k, n \in DOMAIN flags : k # n => flags[k].message # flags[n].message

\* a flag whose trigger matched a sentence too short to be quoted
C22_Witness ==
    /\ outcome # None
    /\ outcome.kind = "returned"
    /\ \E k \in DOMAIN outcome.value.red_flags : outcome.value.red_flags[k].evidence = <<>>

\* C23: key_points holds exactly the findings of the detectors whose gate matched, in the
\* order of DETECTORS; a detector whose gate matched contributes its KeyPoint also when
\* its evidence list is empty, and one whose gate did not match contributes nothing
C23_KeyPointsInDetectorOrder ==
    (outcome # None /\ outcome.kind = "returned") =>
        LET t == _clean(text)
            kps == outcome.value.key_points
            gate ==
                << <<"Payment & Billing", {"payment", "billing", "charge", "fee", "price"}>>,
                   <<"Auto-Renewal", {"auto.?renew", "automatically renew", "renew.*subscription"}>>,
                   <<"Cancellation", {"cancel", "terminat", "end.*subscription"}>>,
                   <<"Refunds", {"refund", "money.back", "chargeback"}>>,
                   <<"Privacy & Data", {"personal (data|information)", "privacy", "collect.*data"}>>,
                   <<"Cookies & Tracking", {"cookie", "tracking", "web beacon", "pixel"}>>,
                   <<"Liability", {"liability", "liable", "indemnif"}>>,
                   <<"Dispute Resolution", {"arbitrat", "class action", "dispute resolution", "jurisdiction"}>>,
                   <<"Intellectual Property", {"intellectual property", "copyright", "trademark", "content.*license", "user.generated"}>>,
                   <<"Account Termination", {"terminat.*account", "suspend.*account", "sole.*discretion"}>>,
                   <<"Terms Changes", {"modif.*terms", "change.*terms", "amend.*agreement", "update.*terms"}>>,
                   <<"Governing Law", {"governing law", "jurisdiction", "laws of the state"}>>,
                   <<"Non-Compete", {"non.compete", "non.solicit", "restraint of trade"}>>,
                   <<"Default & Consequences", {"default", "acceleration", "foreclosure", "repossess"}>>,
                   <<"Health Data", {"hipaa", "health.*data", "medical.*record", "protected health", "\\bphi\\b"}>>,
                   <<"Network & Roaming", {"roaming", "data cap", "fair use", "throttl", "network management"}>>,
                   <<"Security Deposit", {"security deposit", "bond\\b", "damage.*deposit"}>>,
                   <<"Force Majeure", {"force majeure", "act of god", "beyond.*control", "unforeseeable"}>>,
                   <<"Service Level", {"\\bsla\\b", "service level", "uptime", "availability.*%", "downtime"}>>,
                   <<"Age Restriction", {"(\\d+)\\s*years? of age", "must be\\s*\\d+", "age.*requirement", "minors?"}>> >>
            Matched(i) == _has(t, gate[i][2])
            matching == SelectSeq([i \in DOMAIN gate |-> i], Matched)
        IN  /\ [k \in DOMAIN kps |-> kps[k].category]
                   = [k \in DOMAIN matching |-> gate[matching[k]][1]]
            /\ \A k \in DOMAIN kps : kps[k] = DETECTORS(t)[matching[k]]

\* a key point whose gate matched a sentence too short to be quoted
C23_Witness ==
    /\ outcome # None
    /\ outcome.kind = "returned"
    /\ \E k \in DOMAIN outcome.value.key_points : outcome.value.key_points[k].evidence = <<>>

\* C30: no two key points of a result have the same category, and there are at most 20
C30_OneKeyPointPerCategory ==
    (outcome # None /\ outcome.kind = "returned") =>
        LET kps == outcome.value.key_points
        IN  /\ Len(kps) <= 20
            /\ \A k, n \in DOMAIN kps : k # n => kps[k].category # kps[n].category

\* a result with several key points
C30_Witness ==
    /\ outcome # None
    /\ outcome.kind = "returned"
    /\ Len(outcome.value.key_points) >= 5

C26_InputsUnchanged ==
    [][(compared = None /\ compared' # None) =>
           /\ Len(doc_pairs') = Len(doc_pairs)
           /\ \A i \in DOMAIN doc_pairs :
                  /\ doc_pairs'[i][1] = doc_pairs[i][1]
                  /\ doc_pairs'[i][2] = doc_pairs[i][2]]_vars

\* a call that ranked the documents in another order than the caller's list has them
C26_Witness ==
    /\ compared.kind = "returned"
    /\ Len(doc_pairs) = 3
    /\ compared.value.rankings[1].result = doc_pairs[3][2]
    /\ compared.value.rankings[1].result # doc_pairs[1][2]
    /\ doc_pairs[3][2].key_points # <<>>

\* ------------------------------------------------- properties: the web cache
\* C27: when the insertions come one after the other, the cache never holds more than 50
\* entries; an insertion into a cache of 50 removes exactly one entry, the one inserted
\* earliest of those present, and every other entry is still found under its key with
\* the value stored; an insertion into a smaller cache removes nothing
C27_BoundedFifo ==
    [][issued' # issued =>
          LET Keys(c) == {c[i].key : i \in DOMAIN c}
              Kept == {i \in DOMAIN _cache : \E j \in DOMAIN _cache' : _cache'[j] = _cache[i]}
              Gone == DOMAIN _cache \ Kept
          IN
          /\ Len(_cache') <= _MAX_CACHE
          /\ \E j \in DOMAIN _cache' : /\ _cache'[j].key = issued'
                                       /\ _cache'[j].key \notin Keys(_cache)
          /\ IF Len(_cache) = _MAX_CACHE
             THEN /\ Cardinality(Gone) = 1
                  /\ \A i \in Gone :
                        /\ \A k \in Keys(_cache) : _cache[i].key <= k
                        /\ _cache[i].key \notin Keys(_cache')
             ELSE Gone = {}]_vars

\* a full cache that has evicted, holding entries of the three routes
C27_Witness ==
    /\ Len(_cache) = _MAX_CACHE
    /\ issued = _MAX_CACHE + 2
    /\ _cache[1].key = 3
    /\ \E i, j, k \in DOMAIN _cache :
          /\ DOMAIN _cache[i].entry = {"result", "insight"}
          /\ DOMAIN _cache[j].entry = {"compare"}
          /\ DOMAIN _cache[k].entry = {"multi"}
          /\ i > WarmUp /\ j > WarmUp

\* C28: with the handlers' check, eviction and insertion lines interleaving, the cache
\* never holds more than 50 entries and no handler fails while evicting
C28_ThreadsKeepBound ==
    /\ Len(_cache) <= _MAX_CACHE
    /\ \A h \in DOMAIN handlers : handlers[h].pc # "failed"

\* C29: a lookup for an export route either returns the result and the insight stored
\* under the key or returns (None, None); it never raises, whichever route stored the key
C29_LookupNeverRaises ==
    lookup # None =>
        /\ lookup.did.kind = "returned"
        /\ \/ lookup.did.result = None /\ lookup.did.insight = None
           \/ \E i \in DOMAIN _cache :
                 /\ _cache[i].key = lookup.key
                 /\ "result" \in DOMAIN _cache[i].entry
                 /\ "insight" \in DOMAIN _cache[i].entry
                 /\ _cache[i].entry.result = lookup.did.result
                 /\ _cache[i].entry.insight = lookup.did.insight
=============================================================================
